---- MODULE Spec2Model ----
(***************************************************************************)
(* Hierarchical budget allocation: the tree builder and the cascade math   *)
(* of the spreadsheet page, and the allocation store behind the session    *)
(* routes (save, import), with requests that interleave at their awaits.   *)
(***************************************************************************)
EXTENDS Integers, Sequences, FiniteSets, Bags, TLC

(***************************************************************************)
(* Strings are sequences of one-character tokens; "/" is the separator.    *)
(***************************************************************************)
SEP == "/"

RECURSIVE Join(_)
\* Array.prototype.join('/')
Join(parts) ==
  IF parts = <<>> THEN <<>>
  ELSE IF Len(parts) = 1 THEN parts[1]
  ELSE parts[1] \o <<SEP>> \o Join(Tail(parts))

RECURSIVE Split(_)
\* String.prototype.split('/'): the empty string splits to one empty part
Split(s) ==
  IF \A i \in 1..Len(s) : s[i] # SEP THEN <<s>>
  ELSE LET i == CHOOSE k \in 1..Len(s) : s[k] = SEP /\ \A m \in 1..(k - 1) : s[m] # SEP
       IN <<SubSeq(s, 1, i - 1)>> \o Split(SubSeq(s, i + 1, Len(s)))

\* parts.slice(0, -1).join('/')
ParentOf(path) == LET parts == Split(path) IN Join(SubSeq(parts, 1, Len(parts) - 1))

\* path.split('/').length
SegmentCount(path) == Len(Split(path))

(***************************************************************************)
(* Number <-> decimal string (amount.toString(), parseInt).                *)
(***************************************************************************)
DigitChars == <<"0", "1", "2", "3", "4", "5", "6", "7", "8", "9">>

RECURSIVE NumToString(_)
NumToString(n) ==
  IF n < 10 THEN <<DigitChars[n + 1]>> ELSE NumToString(n \div 10) \o <<DigitChars[(n % 10) + 1]>>

DigitValue(c) == CHOOSE d \in 0..9 : DigitChars[d + 1] = c

RECURSIVE ParseIntAcc(_, _)
ParseIntAcc(s, acc) ==
  IF s = <<>> \/ ~(\E d \in 0..9 : DigitChars[d + 1] = s[1]) THEN acc
  ELSE ParseIntAcc(Tail(s), 10 * acc + DigitValue(s[1]))

\* parseInt of a string of decimal digits
ParseInt(s) == ParseIntAcc(s, 0)

(***************************************************************************)
(* IEEE-754 double arithmetic for Math.floor(a * (p / 100)).  A double's   *)
(* significand is kept as base-64 digits, least significant first.         *)
(***************************************************************************)
MantissaBits == 53
DigitBits == 6
DigitBase == 64

RECURSIVE DivDigits(_, _, _)
\* n more base-64 quotient digits (most significant first) of r / d, then the remainder
DivDigits(r, d, n) ==
  IF n = 0 THEN <<r>>
  ELSE <<(r * DigitBase) \div d>> \o DivDigits((r * DigitBase) % d, d, n - 1)

RECURSIVE Reverse(_)
Reverse(s) == IF s = <<>> THEN <<>> ELSE Reverse(Tail(s)) \o <<s[1]>>

RECURSIVE IncDigits(_)
\* digits (least significant first) plus one
IncDigits(ds) ==
  IF ds = <<>> THEN <<1>>
  ELSE IF ds[1] + 1 < DigitBase THEN <<ds[1] + 1>> \o Tail(ds)
  ELSE <<0>> \o IncDigits(Tail(ds))

\* the double nearest p / d (ties to even) for integers 0 < p <= d:
\* [m |-> significand digits, k |-> exponent], value m * 2^-k, 2^52 <= m <= 2^53
FloatDiv(p, d) ==
  LET s == CHOOSE e \in 0..30 : p * 2^e >= d /\ (e = 0 \/ p * 2^(e - 1) < d)
      k == (MantissaBits - 1) + s
      c0 == k % DigitBits
      n0 == p * 2^c0
      rest == DivDigits(n0 % d, d, k \div DigitBits)
      rem == rest[Len(rest)]
      m == Reverse(<<n0 \div d>> \o SubSeq(rest, 1, Len(rest) - 1))
      up == (2 * rem > d) \/ (2 * rem = d /\ m[1] % 2 = 1)
  IN [m |-> IF up THEN IncDigits(m) ELSE m, k |-> k]

RECURSIVE MulDigits(_, _, _)
\* a * digits (least significant first), a < 2^24
MulDigits(a, ds, carry) ==
  IF ds = <<>>
  THEN IF carry = 0 THEN <<>> ELSE <<carry % DigitBase>> \o MulDigits(a, <<>>, carry \div DigitBase)
  ELSE LET t == a * ds[1] + carry
       IN <<t % DigitBase>> \o MulDigits(a, Tail(ds), t \div DigitBase)

RECURSIVE StripDigits(_)
\* without leading (most significant) zero digits
StripDigits(ds) ==
  IF ds # <<>> /\ ds[Len(ds)] = 0 THEN StripDigits(SubSeq(ds, 1, Len(ds) - 1)) ELSE ds

\* bit i (0 = least significant) of the number
Bit(ds, i) ==
  LET j == (i \div DigitBits) + 1
  IN IF j > Len(ds) THEN 0 ELSE (ds[j] \div 2^(i % DigitBits)) % 2

\* number of significant bits, digits stripped
BitLen(ds) ==
  IF ds = <<>> THEN 0
  ELSE DigitBits * (Len(ds) - 1)
       + (CHOOSE n \in 1..DigitBits : 2^(n - 1) <= ds[Len(ds)] /\ ds[Len(ds)] < 2^n)

RECURSIVE HighValue(_, _)
\* the integer made of the digits from index j up
HighValue(ds, j) == IF j > Len(ds) THEN 0 ELSE ds[j] + DigitBase * HighValue(ds, j + 1)

\* floor(number / 2^k)
FloorShift(ds, k) ==
  LET j == (k \div DigitBits) + 1
      kr == k % DigitBits
  IN IF j > Len(ds) THEN 0
     ELSE HighValue(ds, j + 1) * 2^(DigitBits - kr) + (ds[j] \div 2^kr)

\* Math.floor(a * (p / 100)) in double arithmetic, a a non-negative integer below 2^24, 0 <= p <= 100
FloorMulPct(a, p) ==
  IF p = 0 \/ a = 0 THEN 0
  ELSE LET q == FloatDiv(p, 100)
           prod == StripDigits(MulDigits(a, q.m, 0))
           len == BitLen(prod)
           t == len - MantissaBits
           \* the product rounded to 53 significant bits, ties to even
           up == /\ t > 0
                 /\ Bit(prod, t - 1) = 1
                 /\ ((\E i \in 0..(t - 2) : Bit(prod, i) = 1) \/ Bit(prod, t) = 1)
           carries == \A i \in t..(q.k - 1) : Bit(prod, i) = 1
       IN FloorShift(prod, q.k) + (IF up /\ carries THEN 1 ELSE 0)

(***************************************************************************)
(* Nullable strings (a period key): NULL, or Str(s).                       *)
(***************************************************************************)
NULL == <<>>
Str(s) == <<s>>

(***************************************************************************)
(* Hierarchy Path Model and Tree Builder (spreadsheet page).               *)
(* A SKU is [skuCode, unitPrice, hierarchyValues]; hierarchyValues maps    *)
(* every column name to a string, the empty string when it has no value.   *)
(***************************************************************************)
RECURSIVE PathParts(_, _, _, _)
\* the loop of buildHierarchyPath: the truthy values of the columns i .. min(maxLevel, length)
PathParts(sku, definitions, maxLevel, i) ==
  IF i > maxLevel \/ i > Len(definitions) THEN <<>>
  ELSE LET value == sku.hierarchyValues[definitions[i]]
       IN (IF value # <<>> THEN <<value>> ELSE <<>>) \o PathParts(sku, definitions, maxLevel, i + 1)

buildHierarchyPath(sku, definitions, maxLevel) == Join(PathParts(sku, definitions, maxLevel, 1))

\* parentPath ? `${parentPath}/${sku.skuCode}` : sku.skuCode
SkuPath(sku, definitions) ==
  LET parentPath == buildHierarchyPath(sku, definitions, Len(definitions))
  IN IF parentPath # <<>> THEN parentPath \o <<SEP>> \o sku.skuCode ELSE sku.skuCode

\* The builder's locals: nodes in creation order (the values of nodeMap), tree (the
\* indices of the root nodes, in push order) and edges (<<parent, child>> for every
\* parent.children.push(child), in push order).
EmptyTree == [nodes |-> <<>>, tree |-> <<>>, edges |-> <<>>]

\* a builder that never finds a path in nodeMap
NodeMapHasNever(nodes, path) == FALSE

NodeMapHas(nodes, path) == \E i \in 1..Len(nodes) : nodes[i].path = path

\* nodeMap.get(path): the index of the node last set under path, 0 for undefined
NodeMapGet(nodes, path) ==
  IF \E i \in 1..Len(nodes) : nodes[i].path = path
  THEN CHOOSE i \in 1..Len(nodes) :
         nodes[i].path = path /\ \A j \in (i + 1)..Len(nodes) : nodes[j].path # path
  ELSE 0

\* one iteration of the level loop for one SKU
AddLevelNode(t, sku, definitions, level) ==
  LET path == buildHierarchyPath(sku, definitions, level)
  IN IF path = <<>> \/ NodeMapHas(t.nodes, path) THEN t
     ELSE LET parts == Split(path)
              node == [path |-> path, name |-> parts[Len(parts)], level |-> level,
                       unitPrice |-> <<>>]
              nodes2 == Append(t.nodes, node)
              idx == Len(nodes2)
              parent == NodeMapGet(nodes2, Join(SubSeq(parts, 1, Len(parts) - 1)))
          IN IF level = 1 THEN [t EXCEPT !.nodes = nodes2, !.tree = Append(@, idx)]
             ELSE IF parent # 0
                  THEN [t EXCEPT !.nodes = nodes2, !.edges = Append(@, <<parent, idx>>)]
                  ELSE [t EXCEPT !.nodes = nodes2]

RECURSIVE AddLevels(_, _, _, _)
AddLevels(t, sku, definitions, level) ==
  IF level > Len(definitions) THEN t
  ELSE AddLevels(AddLevelNode(t, sku, definitions, level), sku, definitions, level + 1)

\* the SKU level (final level) of one SKU
AddSkuNode(t, sku, definitions) ==
  LET parentPath == buildHierarchyPath(sku, definitions, Len(definitions))
      skuPath == SkuPath(sku, definitions)
  IN IF NodeMapHas(t.nodes, skuPath) THEN t
     ELSE LET node == [path |-> skuPath, name |-> sku.skuCode,
                       level |-> Len(definitions) + 1, unitPrice |-> <<sku.unitPrice>>]
              nodes2 == Append(t.nodes, node)
              idx == Len(nodes2)
              parent == NodeMapGet(nodes2, parentPath)
          IN IF parent # 0
             THEN [t EXCEPT !.nodes = nodes2, !.edges = Append(@, <<parent, idx>>)]
             ELSE [t EXCEPT !.nodes = nodes2]

RECURSIVE BuildFrom(_, _, _)
BuildFrom(t, skus, definitions) ==
  IF skus = <<>> THEN t
  ELSE BuildFrom(AddSkuNode(AddLevels(t, skus[1], definitions, 1), skus[1], definitions),
                 Tail(skus), definitions)

buildHierarchyTree(skus, definitions) ==
  IF skus = <<>> THEN EmptyTree ELSE BuildFrom(EmptyTree, skus, definitions)

Range(s) == {s[i] : i \in 1..Len(s)}

RECURSIVE Reach(_, _)
Reach(t, set) ==
  LET more == set \cup {e[2] : e \in {f \in Range(t.edges) : f[1] \in set}}
  IN IF more = set THEN set ELSE Reach(t, more)

\* the returned forest: the indices of the nodes reachable from the roots through children
Forest(t) == Reach(t, Range(t.tree))

(***************************************************************************)
(* State.                                                                  *)
(***************************************************************************)
VARIABLES
  session,          \* page: the loaded session [totalBudget (string), hierarchyDefinitions]
  skuData,          \* page: the loaded SKU records
  allocations,      \* page: the allocation array being edited
  availablePeriods, \* page: the loaded period keys
  hierarchyTree,    \* page: the tree built from session, skuData (and allocations)
  lastEdit,         \* history: the last updateAllocation call, <<>> when none
  nEdits,           \* history: number of updateAllocation calls
  csvRows,          \* page: the rows of the last CSV export, <<>> when none
  dbAllocations,    \* store: the allocation rows of the session, a bag
  dbHierarchy,      \* store: the hierarchy definition rows of the session, in level order
  dbSkuData,        \* store: the SKU rows of the session, in insertion order
  requests,         \* store: per client, the request being handled or last answered
  nRequests,        \* history: number of requests started
  finished,         \* history: the answered requests, in the order answered
  generation,       \* store: which generation of the period routes is deployed
  dbPeriodBudgets,  \* store: the period budget rows of the session, a set
  dbSession         \* store: the session row [status, totalBudget, exists]

pageVars == <<session, skuData, allocations, availablePeriods, hierarchyTree, lastEdit, nEdits, csvRows>>
periodVars == <<generation, dbPeriodBudgets, dbSession>>
storeVars == <<dbAllocations, dbHierarchy, dbSkuData, requests, nRequests, finished, periodVars>>
vars == <<pageVars, storeVars>>

Clients == {1, 2}
NoRequest ==
  [client |-> 0, kind |-> "none", pc |-> "idle", status |-> 0, body |-> <<>>, seq |-> 0, pre |-> <<>>,
   overlapped |-> FALSE, result |-> 0, user |-> "none"]

\* the session row as POST sessions creates it: a draft
SessionCreated == [status |-> "draft", totalBudget |-> 100, exists |-> TRUE]

\* the store of a session just created, no request made
StoreIdle ==
  /\ dbAllocations = EmptyBag
  /\ dbHierarchy = <<>>
  /\ dbSkuData = <<>>
  /\ requests = [c \in Clients |-> NoRequest]
  /\ nRequests = 0
  /\ finished = <<>>
  /\ generation = "legacy"
  /\ dbPeriodBudgets = {}
  /\ dbSession = SessionCreated

Columns == <<"category", "color">>

HierarchyValues(category, color) ==
  [col \in Range(Columns) |-> IF col = "category" THEN category ELSE color]

Sku(code, price, category, color) ==
  [skuCode |-> code, unitPrice |-> price, hierarchyValues |-> HierarchyValues(category, color)]

\* every sequence of at most n records of pool with pairwise distinct SKU codes
RECURSIVE SkuLists(_, _)
SkuLists(pool, n) ==
  IF n = 0 THEN {<<>>}
  ELSE LET shorter == SkuLists(pool, n - 1)
       IN shorter \cup
          {Append(l, s) : <<l, s>> \in
             {ls \in shorter \X pool :
                Len(ls[1]) = n - 1 /\ \A i \in 1..Len(ls[1]) : ls[1][i].skuCode # ls[2].skuCode}}

(***************************************************************************)
(* The tree builder on bounded inputs: every list of at most MaxSkus SKUs  *)
(* over TreeSkus, under zero, one or two hierarchy definitions.            *)
(***************************************************************************)
MaxSkus == 2

TreeSkus ==
  {Sku(code, 1000, category, color) :
     code \in {<<"S">>, <<"R">>, <<"S", SEP, "T">>},
     category \in {<<>>, <<"A">>, <<"B">>, <<"A", SEP, "R">>},
     color \in {<<>>, <<"R">>, <<"R", SEP, "S">>}}

TreeInit ==
  /\ session \in {[totalBudget |-> <<"1", "0", "0">>, hierarchyDefinitions |-> SubSeq(Columns, 1, n)] :
                    n \in 0..Len(Columns)}
  /\ skuData \in SkuLists(TreeSkus, MaxSkus)
  /\ allocations = <<>>
  /\ availablePeriods = <<>>
  /\ hierarchyTree = EmptyTree
  /\ lastEdit = <<>>
  /\ csvRows = <<>>
  /\ nEdits = 0
  /\ StoreIdle

\* the effect that rebuilds the tree once session and skuData are loaded
RebuildTree ==
  /\ skuData # <<>>
  /\ hierarchyTree # buildHierarchyTree(skuData, session.hierarchyDefinitions)
  /\ hierarchyTree' = buildHierarchyTree(skuData, session.hierarchyDefinitions)
  /\ UNCHANGED <<session, skuData, allocations, availablePeriods, lastEdit, nEdits, csvRows>>
  /\ UNCHANGED storeVars

TreeNext == RebuildTree

SpecTree == TreeInit /\ [][TreeNext]_vars

Built == hierarchyTree.nodes # <<>>

HasSeparator(s) == \E i \in 1..Len(s) : s[i] = SEP

\* C5 as claimed: in the forest every node's path is unique, and for every
\* parent-child edge the parent's path is the child's path with its last
\* '/'-segment removed -- for every set of SKU records.
C5_AsClaimed ==
  Built =>
    LET t == hierarchyTree
        forest == Forest(t)
    IN /\ \A i, j \in forest : i # j => t.nodes[i].path # t.nodes[j].path
       /\ \A e \in Range(t.edges) :
            e[1] \in forest => t.nodes[e[1]].path = ParentOf(t.nodes[e[2]].path)

\* C5 amended: the same, for SKU records whose SKU codes hold no '/'
\* (hierarchy values may hold one).
C5_UniquePathsParentEdges ==
  (Built /\ \A i \in 1..Len(skuData) : ~HasSeparator(skuData[i].skuCode)) =>
    LET t == hierarchyTree
        forest == Forest(t)
    IN /\ \A i, j \in forest : i # j => t.nodes[i].path # t.nodes[j].path
       /\ \A e \in Range(t.edges) :
            e[1] \in forest => t.nodes[e[1]].path = ParentOf(t.nodes[e[2]].path)

\* a built forest with a root, an intermediate node under it whose value holds
\* a '/', and two SKU leaves
C5_Witness ==
  /\ Built
  /\ \A i \in 1..Len(skuData) : ~HasSeparator(skuData[i].skuCode)
  /\ \E i \in 1..Len(skuData) : HasSeparator(skuData[i].hierarchyValues["category"])
  /\ Len(hierarchyTree.edges) >= 3
  /\ \E e \in Range(hierarchyTree.edges) :
       e[1] \in Range(hierarchyTree.tree) /\ hierarchyTree.nodes[e[2]].unitPrice = <<>>

\* C6 as claimed: every SKU of the input has a leaf node in the returned forest,
\* a child of the node at its deepest intermediate path, or a root when the SKU
\* has no hierarchy values.
C6_AsClaimed ==
  Built =>
    \A k \in 1..Len(skuData) :
      LET t == hierarchyTree
          sku == skuData[k]
          defs == session.hierarchyDefinitions
          parentPath == buildHierarchyPath(sku, defs, Len(defs))
      IN \E i \in Forest(t) :
           /\ t.nodes[i].path = SkuPath(sku, defs)
           /\ t.nodes[i].name = sku.skuCode
           /\ t.nodes[i].unitPrice = <<sku.unitPrice>>
           /\ IF parentPath = <<>> THEN i \in Range(t.tree)
              ELSE \E e \in Range(t.edges) : e[2] = i /\ t.nodes[e[1]].path = parentPath

(***************************************************************************)
(* Cascade Engine (spreadsheet page): getParentAmount and updateAllocation.*)
(* An allocation of the page is [hierarchyPath, level, percentage,         *)
(* amount (string), quantity, period].                                     *)
(***************************************************************************)
\* allocs.find(a => a.hierarchyPath === path): the index of the first match, 0 if none
FindByPath(allocs, path) ==
  IF \E i \in 1..Len(allocs) : allocs[i].hierarchyPath = path
  THEN CHOOSE i \in 1..Len(allocs) :
         allocs[i].hierarchyPath = path /\ \A j \in 1..(i - 1) : allocs[j].hierarchyPath # path
  ELSE 0

getParentAmount(sess, path, allocs) ==
  LET pathParts == Split(path)
      parentPath == Join(SubSeq(pathParts, 1, Len(pathParts) - 1))
      parentAlloc == FindByPath(allocs, parentPath)
  IN IF Len(pathParts) = 1 THEN ParseInt(sess.totalBudget)
     ELSE IF parentAlloc # 0 THEN ParseInt(allocs[parentAlloc].amount)
     ELSE ParseInt(sess.totalBudget)

\* the same index, matching the path only
FindIndexAnyPeriod(allocs, path, period) == FindByPath(allocs, path)

\* allocations.findIndex(a => a.hierarchyPath === path && a.period === period), 0 for -1
FindIndex(allocs, path, period) ==
  IF \E i \in 1..Len(allocs) : allocs[i].hierarchyPath = path /\ allocs[i].period = period
  THEN CHOOSE i \in 1..Len(allocs) :
         /\ allocs[i].hierarchyPath = path /\ allocs[i].period = period
         /\ \A j \in 1..(i - 1) : ~(allocs[j].hierarchyPath = path /\ allocs[j].period = period)
  ELSE 0

\* skuData.filter(...) of updateAllocation: the indices of the related SKUs
RelatedSkus(sess, skus, path) ==
  LET pathLevel == SegmentCount(path)
      parts == Split(path)
  IN IF pathLevel = Len(sess.hierarchyDefinitions) + 1
     THEN {k \in 1..Len(skus) : skus[k].skuCode = parts[Len(parts)]}
     ELSE {k \in 1..Len(skus) :
             buildHierarchyPath(skus[k], sess.hierarchyDefinitions, pathLevel) = path}

RECURSIVE SumUnitPrice(_, _)
SumUnitPrice(skus, ks) ==
  IF ks = {} THEN 0
  ELSE LET k == CHOOSE m \in ks : TRUE IN skus[k].unitPrice + SumUnitPrice(skus, ks \ {k})

\* the allocation array after updateAllocation(path, period, percentage).
\* Math.floor(amount / totalUnitPrice) is the integer quotient: both are integers
\* below 2^53, so the double quotient never rounds up to the next integer.
updateAllocation(sess, skus, allocs, path, period, percentage) ==
  LET parentAmount == getParentAmount(sess, path, allocs)
      amount == FloorMulPct(parentAmount, percentage)
      pathLevel == SegmentCount(path)
      totalUnitPrice == SumUnitPrice(skus, RelatedSkus(sess, skus, path))
      quantity == IF totalUnitPrice > 0 THEN amount \div totalUnitPrice ELSE 0
      existingIndex == FindIndex(allocs, path, period)
  IN IF existingIndex > 0
     THEN [allocs EXCEPT ![existingIndex] =
             [@ EXCEPT !.percentage = percentage, !.amount = NumToString(amount),
                       !.quantity = quantity]]
     ELSE Append(allocs, [hierarchyPath |-> path, level |-> pathLevel,
                          percentage |-> percentage, amount |-> NumToString(amount),
                          quantity |-> quantity, period |-> period])

(***************************************************************************)
(* Editing percentages on a loaded page: two SKUs at most, two hierarchy   *)
(* levels, two periods, no allocation stored yet.                          *)
(***************************************************************************)
MaxEdits == 3

EditPool ==
  << Sku(<<"S">>, 1000, <<"A">>, <<"R">>),
     Sku(<<"T">>, 2000, <<"A">>, <<"B">>),
     Sku(<<"U">>, 500, <<"A">>, <<>>),
     Sku(<<"V">>, 0, <<"A">>, <<"R">>) >>

EditSkuLists ==
  {<<EditPool[i]>> : i \in 1..Len(EditPool)}
    \cup {<<EditPool[i], EditPool[j]>> : <<i, j>> \in {ij \in (1..Len(EditPool)) \X (1..Len(EditPool)) : ij[1] < ij[2]}}

EditBudgets == {NumToString(100), NumToString(10000000)}

\* the whole percentages tried
EditPercentages == {0, 29, 100}

EditInit ==
  /\ session \in {[totalBudget |-> b, hierarchyDefinitions |-> Columns] : b \in EditBudgets}
  /\ skuData \in EditSkuLists
  /\ allocations = <<>>
  /\ availablePeriods = <<Str("Q1"), Str("Q2")>>
  /\ hierarchyTree = buildHierarchyTree(skuData, session.hierarchyDefinitions)
  /\ lastEdit = <<>>
  /\ csvRows = <<>>
  /\ nEdits = 0
  /\ StoreIdle

\* onChange of a percentage input: the rows rendered are the nodes of the forest,
\* one input per available period
UpdateAllocation ==
  /\ nEdits < MaxEdits
  /\ \E i \in Forest(hierarchyTree), p \in Range(availablePeriods), percentage \in EditPercentages :
       LET path == hierarchyTree.nodes[i].path
       IN /\ allocations' = updateAllocation(session, skuData, allocations, path, p, percentage)
          /\ lastEdit' = [path |-> path, period |-> p, percentage |-> percentage,
                          node |-> hierarchyTree.nodes[i],
                          parentAmount |-> getParentAmount(session, path, allocations),
                          before |-> allocations]
  /\ hierarchyTree' = buildHierarchyTree(skuData, session.hierarchyDefinitions)
  /\ nEdits' = nEdits + 1
  /\ UNCHANGED <<session, skuData, availablePeriods, csvRows>>
  /\ UNCHANGED storeVars

EditNext == UpdateAllocation

SpecEdit == EditInit /\ [][EditNext]_vars

Edited == lastEdit # <<>>

\* the record the last edit stored
Stored == allocations[FindIndex(allocations, lastEdit.path, lastEdit.period)]

\* the first allocation of the array at (path, period), 0 if none
ParentRecord(allocs, path, period) == FindIndex(allocs, ParentOf(path), period)

\* C1 as claimed: the parent amount used is the total budget for a one-segment
\* path; otherwise the amount of the allocation at the parent path for the same
\* period; the total budget if there is none for that period.
C1_AsClaimed ==
  Edited =>
    LET parent == ParentRecord(lastEdit.before, lastEdit.path, lastEdit.period)
    IN lastEdit.parentAmount =
         IF SegmentCount(lastEdit.path) = 1 THEN ParseInt(session.totalBudget)
         ELSE IF parent # 0 THEN ParseInt(lastEdit.before[parent].amount)
         ELSE ParseInt(session.totalBudget)

\* C2 as claimed: the amount stored is floor(A * p / 100), A the parent amount.
C2_AsClaimed ==
  Edited => ParseInt(Stored.amount) = (lastEdit.parentAmount * lastEdit.percentage) \div 100

\* the SKU records whose derived path at level equals path
SkusAtNode(sess, skus, path, level) ==
  {k \in 1..Len(skus) :
     path = IF level = Len(sess.hierarchyDefinitions) + 1
            THEN SkuPath(skus[k], sess.hierarchyDefinitions)
            ELSE buildHierarchyPath(skus[k], sess.hierarchyDefinitions, level)}

\* C3 as claimed: the quantity stored is 0 when the unit prices of the SKUs at
\* the node sum to zero, floor(amount / sum) otherwise.
C3_AsClaimed ==
  Edited =>
    LET total == SumUnitPrice(skuData, SkusAtNode(session, skuData, lastEdit.path, lastEdit.node.level))
    IN Stored.quantity = IF total = 0 THEN 0 ELSE ParseInt(Stored.amount) \div total

\* C4: entering a percentage for (path, period) leaves every other record of
\* the array as it was: the records before keep their places and values, except
\* the one at (path, period), and at most that one record is added.
C4_OnlyThatRecordChanges ==
  Edited =>
    LET before == lastEdit.before
    IN /\ Len(allocations) \in {Len(before), Len(before) + 1}
       /\ \A i \in 1..Len(before) :
            (before[i].hierarchyPath # lastEdit.path \/ before[i].period # lastEdit.period)
              => allocations[i] = before[i]
       /\ \A i \in (Len(before) + 1)..Len(allocations) :
            allocations[i].hierarchyPath = lastEdit.path /\ allocations[i].period = lastEdit.period

\* the edited path has a stored parent and a stored child in the same period and a
\* record of its own in the other period, all entered before
C4_Witness ==
  /\ Edited
  /\ \E i, j \in 1..Len(lastEdit.before) :
       /\ lastEdit.before[i].hierarchyPath = lastEdit.path
       /\ lastEdit.before[i].period # lastEdit.period
       /\ ParentOf(lastEdit.before[j].hierarchyPath) = lastEdit.path
       /\ lastEdit.before[j].period = lastEdit.period
       /\ allocations[i] = lastEdit.before[i]
       /\ allocations[j] = lastEdit.before[j]

(***************************************************************************)
(* The store: save and import requests of two clients on one session.      *)
(* A request takes one step per awaited call of its route handler, and     *)
(* the steps of two requests interleave. An awaited store call may reject. *)
(***************************************************************************)
MaxRequests == 2

Owner == "owner"
Users == {Owner, "other"}

Row(path, level, percentage, amount, quantity, period) ==
  [hierarchyPath |-> path, level |-> level, percentage |-> percentage,
   amount |-> amount, quantity |-> quantity, period |-> period]

\* allocationSchema, on a row of numbers and strings
allocationSchemaOk(a) ==
  /\ a.level > 0
  /\ a.percentage >= 0 /\ a.percentage <= 100
  /\ a.amount >= 0
  /\ a.quantity >= 0

\* a.period || null
PeriodOrNull(period) == IF period = NULL \/ period = Str("") THEN NULL ELSE period

\* allocations.map(a => ({ ..., period: a.period || null }))
allocationRecords(body) == [i \in 1..Len(body) |-> [body[i] EXCEPT !.period = PeriodOrNull(@)]]

RECURSIVE BagOfSeq(_)
BagOfSeq(rows) == IF rows = <<>> THEN EmptyBag ELSE SetToBag({Head(rows)}) (+) BagOfSeq(Tail(rows))

\* the unique index on (session_id, hierarchy_path, period): rows whose period
\* is NULL are distinct from each other
UniqueIndexHolds(rows) ==
  \A r \in BagToSet(rows) :
    r.period # NULL =>
      /\ CopiesIn(r, rows) = 1
      /\ \A q \in BagToSet(rows) :
           (q.hierarchyPath = r.hierarchyPath /\ q.period = r.period) => q = r

SaveRows ==
  {Row(<<"A">>, 1, 100, 100, 0, NULL),
   Row(<<"A">>, 1, 50, 50, 0, Str("Q1")),
   Row(<<"A", SEP, "R">>, 2, 100, 50, 0, Str("")),
   Row(<<"B">>, 1, 150, 150, 0, NULL)}

\* the request bodies of a save: at most two rows
SaveBodies == {<<>>} \cup {<<r>> : r \in SaveRows} \cup {<<r, q>> : r \in SaveRows, q \in SaveRows}

\* importSchema
importSchemaOk(body) == \A i \in 1..Len(body.skuData) : body.skuData[i].unitPrice >= 0

ImportBodies ==
  {[skuData |-> <<Sku(<<"S">>, 1000, <<"A">>, <<"R">>)>>, hierarchyColumns |-> <<"category">>],
   [skuData |-> <<Sku(<<"S">>, 1000, <<"A">>, <<"R">>), Sku(<<"T">>, 2000, <<"A">>, <<>>)>>,
    hierarchyColumns |-> Columns],
   [skuData |-> <<Sku(<<"S">>, -1, <<"A">>, <<"R">>)>>, hierarchyColumns |-> <<"category">>],
   [skuData |-> <<Sku(<<"S">>, 1000, <<"A">>, <<"R">>)>>, hierarchyColumns |-> <<"category", "category">>]}

Snapshot ==
  [allocations |-> dbAllocations, hierarchy |-> dbHierarchy, skuData |-> dbSkuData,
   budgets |-> dbPeriodBudgets]

InFlight(c) == requests[c].pc \notin {"idle", "done"}

\* the request of client c is answered with status
Answer(c, status) ==
  /\ requests' = [requests EXCEPT ![c].pc = "done", ![c].status = status]
  /\ finished' = Append(finished, [requests[c] EXCEPT !.pc = "done", !.status = status])

\* a client sends a request, which is either answered before any store call
\* (status 403 or 400) or goes on to its first store call (status 0); the
\* requests in flight at that moment are marked as overlapped
Begin(c, kind, user, body, status) ==
  LET request == [client |-> c, kind |-> kind, pc |-> IF status = 0 THEN "delete" ELSE "done",
                  status |-> status, body |-> body, seq |-> nRequests + 1,
                  pre |-> Snapshot, overlapped |-> \E e \in Clients : InFlight(e),
                  result |-> 0, user |-> user]
  IN /\ nRequests' = nRequests + 1
     /\ requests' = [d \in Clients |->
                       IF d = c THEN request
                       ELSE IF InFlight(d) THEN [requests[d] EXCEPT !.overlapped = TRUE]
                       ELSE requests[d]]
     /\ finished' = IF status = 0 THEN finished ELSE Append(finished, request)
     /\ UNCHANGED <<dbAllocations, dbHierarchy, dbSkuData>>
     /\ UNCHANGED pageVars
     /\ UNCHANGED periodVars

\* PUT allocations up to the parse of the body: the creator check, then the schema
SaveBegin(c) ==
  /\ ~InFlight(c)
  /\ nRequests < MaxRequests
  /\ \E user \in Users, body \in SaveBodies :
       Begin(c, "save", user, body,
             IF user # Owner THEN 403
             ELSE IF \A i \in 1..Len(body) : allocationSchemaOk(body[i]) THEN 0
             ELSE 400)

\* await prisma.allocation.deleteMany({ where: { sessionId } })
SaveDelete(c) ==
  /\ requests[c].kind = "save" /\ requests[c].pc = "delete"
  /\ \E ok \in BOOLEAN :
       IF ok
       THEN /\ dbAllocations' = EmptyBag
            /\ requests' = [requests EXCEPT ![c].pc = "create"]
            /\ UNCHANGED finished
       ELSE /\ Answer(c, 500)
            /\ UNCHANGED dbAllocations
  /\ UNCHANGED <<dbHierarchy, dbSkuData, nRequests>>
  /\ UNCHANGED pageVars
  /\ UNCHANGED periodVars

\* await prisma.allocation.createMany({ data: allocationRecords }), one statement
SaveCreate(c) ==
  /\ requests[c].kind = "save" /\ requests[c].pc = "create"
  /\ LET rows == dbAllocations (+) BagOfSeq(allocationRecords(requests[c].body))
     IN \E ok \in BOOLEAN :
          IF ok /\ UniqueIndexHolds(rows)
          THEN /\ dbAllocations' = rows
               /\ Answer(c, 200)
          ELSE /\ Answer(c, 500)
               /\ UNCHANGED dbAllocations
  /\ UNCHANGED <<dbHierarchy, dbSkuData, nRequests>>
  /\ UNCHANGED pageVars
  /\ UNCHANGED periodVars

\* POST import up to the parse of the body
ImportBegin(c) ==
  /\ ~InFlight(c)
  /\ nRequests < MaxRequests
  /\ \E user \in Users, body \in ImportBodies :
       Begin(c, "import", user, body,
             IF user # Owner THEN 403
             ELSE IF importSchemaOk(body) THEN 0
             ELSE 400)

\* a delete step that leaves the allocation rows in place
ImportDeleteSkusOnly(c) ==
  /\ requests[c].kind = "import" /\ requests[c].pc = "delete"
  /\ dbSkuData' = <<>>
  /\ dbHierarchy' = <<>>
  /\ requests' = [requests EXCEPT ![c].pc = "hierarchy"]
  /\ UNCHANGED <<dbAllocations, finished, nRequests>>
  /\ UNCHANGED pageVars
  /\ UNCHANGED periodVars

\* await prisma.$transaction([three deleteMany])
ImportDelete(c) ==
  /\ requests[c].kind = "import" /\ requests[c].pc = "delete"
  /\ \E ok \in BOOLEAN :
       IF ok
       THEN /\ dbAllocations' = EmptyBag
            /\ dbSkuData' = <<>>
            /\ dbHierarchy' = <<>>
            /\ requests' = [requests EXCEPT ![c].pc = "hierarchy"]
            /\ UNCHANGED finished
       ELSE /\ Answer(c, 500)
            /\ UNCHANGED <<dbAllocations, dbSkuData, dbHierarchy>>
  /\ UNCHANGED nRequests
  /\ UNCHANGED pageVars
  /\ UNCHANGED periodVars

\* hierarchyColumns.map((col, index) => ...)
hierarchyDefinitionRows(columns) ==
  [i \in 1..Len(columns) |-> [level |-> i, columnName |-> columns[i], displayOrder |-> i]]

\* await prisma.hierarchyDefinition.createMany
ImportCreateHierarchy(c) ==
  /\ requests[c].kind = "import" /\ requests[c].pc = "hierarchy"
  /\ \E ok \in BOOLEAN :
       IF ok
       THEN /\ dbHierarchy' = dbHierarchy \o hierarchyDefinitionRows(requests[c].body.hierarchyColumns)
            /\ requests' = [requests EXCEPT ![c].pc = "skus"]
            /\ UNCHANGED finished
       ELSE /\ Answer(c, 500)
            /\ UNCHANGED dbHierarchy
  /\ UNCHANGED <<dbAllocations, dbSkuData, nRequests>>
  /\ UNCHANGED pageVars
  /\ UNCHANGED periodVars

\* await prisma.skuData.createMany
ImportCreateSkus(c) ==
  /\ requests[c].kind = "import" /\ requests[c].pc = "skus"
  /\ \E ok \in BOOLEAN :
       IF ok
       THEN /\ dbSkuData' = dbSkuData \o requests[c].body.skuData
            /\ Answer(c, 200)
       ELSE /\ Answer(c, 500)
            /\ UNCHANGED dbSkuData
  /\ UNCHANGED <<dbAllocations, dbHierarchy, nRequests>>
  /\ UNCHANGED pageVars
  /\ UNCHANGED periodVars

\* the session as created: no page is open on it, the store is empty
Init ==
  /\ session = [totalBudget |-> NumToString(100), hierarchyDefinitions |-> <<>>]
  /\ skuData = <<>>
  /\ allocations = <<>>
  /\ availablePeriods = <<>>
  /\ hierarchyTree = EmptyTree
  /\ lastEdit = <<>>
  /\ csvRows = <<>>
  /\ nEdits = 0
  /\ StoreIdle

Next ==
  \/ \E c \in Clients : SaveBegin(c)
  \/ \E c \in Clients : SaveDelete(c)
  \/ \E c \in Clients : SaveCreate(c)
  \/ \E c \in Clients : ImportBegin(c)
  \/ \E c \in Clients : ImportDelete(c)
  \/ \E c \in Clients : ImportCreateHierarchy(c)
  \/ \E c \in Clients : ImportCreateSkus(c)

Spec == Init /\ [][Next]_vars

\* the last request answered, when every request sent has been answered
Quiet == finished # <<>> /\ \A c \in Clients : ~InFlight(c)
Last == finished[Len(finished)]

\* C7 as claimed: no two allocation rows of the session share the same
\* (hierarchyPath, period) pair, rows of the null period included.
C7_AsClaimed ==
  \A r \in BagToSet(dbAllocations) :
    /\ CopiesIn(r, dbAllocations) = 1
    /\ \A q \in BagToSet(dbAllocations) :
         (q.hierarchyPath = r.hierarchyPath /\ q.period = r.period) => q = r

\* C8 as claimed: once two save requests have both finished with success, the
\* stored allocation rows are exactly the payload of the later one, whether
\* the later one is the one sent last or the one answered last.
C8_AsClaimed ==
  (/\ Quiet
   /\ Len(finished) = 2
   /\ \A i \in 1..2 : finished[i].kind = "save" /\ finished[i].status = 200)
    => \E i \in 1..2 :
         /\ i = 2 \/ finished[i].seq = 2
         /\ dbAllocations = BagOfSeq(allocationRecords(finished[i].body))

\* C9 as claimed: a save that did not succeed, and that no other request
\* overlapped, leaves the stored allocation rows as they were before it.
C9_AsClaimed ==
  (/\ Quiet
   /\ Last.kind = "save"
   /\ Last.status # 200
   /\ ~requests[Last.client].overlapped)
    => dbAllocations = requests[Last.client].pre.allocations

\* C10 as claimed: an import that failed, and that no other request overlapped,
\* leaves hierarchy definitions, SKU rows and allocation rows as before it.
C10_AsClaimed ==
  (/\ Quiet
   /\ Last.kind = "import"
   /\ Last.status # 200
   /\ ~requests[Last.client].overlapped)
    => Snapshot = requests[Last.client].pre

(***************************************************************************)
(* The Period Manager: create, rename and delete of a period, in the       *)
(* legacy generation (a period is what allocation rows name) and in the    *)
(* generation with a period budget table. A period name sent by a client   *)
(* is a string: a sequence of tokens, " " being a blank; the empty string  *)
(* is Str("").                                                             *)
(***************************************************************************)
Generations == {"legacy", "budget"}

Blank == " "

RECURSIVE TrimStart(_)
TrimStart(s) == IF s # <<>> /\ Head(s) = Blank THEN TrimStart(Tail(s)) ELSE s

\* String.prototype.trim()
Trim(s) ==
  LET t == Reverse(TrimStart(Reverse(TrimStart(s))))
  IN IF t = <<>> THEN Str("") ELSE t

\* decodedPeriod === 'null' ? null : decodedPeriod
DecodePeriod(segment) == IF segment = Str("null") THEN NULL ELSE segment

\* the rows of the bag, with their copies, that satisfy keep
BagFilter(rows, keep(_)) == [r \in {q \in BagToSet(rows) : keep(q)} |-> CopiesIn(r, rows)]

RowsOfPeriod(rows, period) == LET Keep(r) == r.period = period IN BagFilter(rows, Keep)

\* a delete that removes nothing
RowsAllKept(rows, period) == rows

RowsNotOfPeriod(rows, period) == LET Keep(r) == r.period # period IN BagFilter(rows, Keep)

\* the rows of period from, each with its period set to period to
RowsRekeyed(rows, from, to) ==
  LET source == RowsOfPeriod(rows, from)
  IN [r \in {[q EXCEPT !.period = to] : q \in BagToSet(source)} |->
        CopiesIn([r EXCEPT !.period = from], source)]

\* sourceAllocations.map(allocation => ({ ...allocation, period: periodName }))
CopiedRows(rows, copyFrom, periodName) == RowsRekeyed(rows, copyFrom, periodName)

\* orderBy: { level: 'asc' }: the column names by level, rows of one level in stored order
RECURSIVE ColumnsByLevel(_, _)
ColumnsByLevel(rows, level) ==
  IF \A i \in 1..Len(rows) : rows[i].level < level THEN <<>>
  ELSE LET Here(r) == r.level = level
           at == SelectSeq(rows, Here)
       IN [i \in 1..Len(at) |-> at[i].columnName] \o ColumnsByLevel(rows, level + 1)

\* the path of a SKU made of its values at the first level columns, when it has all of them
CompletePath(sku, columns, level) ==
  LET parts == PathParts(sku, columns, level, 1)
  IN IF Len(parts) = level THEN {Join(parts)} ELSE {}

\* hierarchyPaths of the period POST
PlaceholderPaths(skus, columns) ==
  UNION {CompletePath(skus[k], columns, level) : k \in 1..Len(skus), level \in 1..Len(columns)}

\* a placeholder row at 100 whatever its siblings
PlaceholderRowFull(path, paths, periodName) ==
  Row(path, SegmentCount(path), 100, 0, 0, periodName)

\* the placeholder row of a path: 100 for the only child of its parent path and
\* for the only top level path, 0 otherwise
PlaceholderRow(path, paths, periodName) ==
  LET siblings == IF SegmentCount(path) > 1
                  THEN {q \in paths : SegmentCount(q) > 1 /\ ParentOf(q) = ParentOf(path)}
                  ELSE {q \in paths : SegmentCount(q) = 1}
  IN Row(path, SegmentCount(path), IF Cardinality(siblings) = 1 THEN 100 ELSE 0, 0, 0, periodName)

\* the placeholder allocations of the period POST
PlaceholderRows(skus, definitions, periodName) ==
  IF Len(skus) > 0 /\ Len(definitions) > 0
  THEN LET paths == PlaceholderPaths(skus, ColumnsByLevel(definitions, 1))
       IN SetToBag({PlaceholderRow(path, paths, periodName) : path \in paths})
  ELSE EmptyBag

\* copyFrom !== undefined && copyFrom !== null && copyFrom !== '' and
\* sourceAllocations.length > 0
CopyApplies(body) ==
  /\ body.copyGiven
  /\ body.copyFrom # NULL
  /\ body.copyFrom # Str("")
  /\ \E r \in BagToSet(dbAllocations) : r.period = body.copyFrom

\* the rows the period POST inserts: the copies of the source period when a
\* source is named and has rows, the placeholders otherwise
CreatedRows(body, periodName) ==
  IF CopyApplies(body)
  THEN CopiedRows(dbAllocations, body.copyFrom, periodName)
  ELSE PlaceholderRows(dbSkuData, dbHierarchy, periodName)

\* the periods in the order of the list: null first, then by localeCompare
PeriodOrder == <<NULL, Str(""), Str("Q1"), Str("Q2"), Str("Q3"), Str("null")>>

\* GET periods, on the rows and the budget rows given: the distinct periods of
\* the allocation rows (legacy), the periods of the budget rows (period budget)
PeriodListOf(rows, budgets) ==
  LET Listed(p) == IF generation = "legacy"
                   THEN \E r \in BagToSet(rows) : r.period = p
                   ELSE \E b \in budgets : b.period = p
  IN SelectSeq(PeriodOrder, Listed)

PeriodList == PeriodListOf(dbAllocations, dbPeriodBudgets)

\* a check that finds nothing
PeriodExistsNever(period) == FALSE

\* the existence check of create and rename: findFirst on the allocation rows
\* (legacy), findUnique on the budget rows (period budget)
PeriodExists(period) ==
  IF generation = "legacy"
  THEN \E r \in BagToSet(dbAllocations) : r.period = period
  ELSE \E b \in dbPeriodBudgets : b.period = period

\* a period request is received from a user the handler does not ask for:
\* answered at once with status, or going on at pc
Receive(c, kind, body, status, pc) ==
  \E user \in Users :
  LET request == [client |-> c, kind |-> kind, pc |-> IF status = 0 THEN pc ELSE "done",
                  status |-> status, body |-> body, seq |-> nRequests + 1,
                  pre |-> Snapshot, overlapped |-> \E e \in Clients : InFlight(e),
                  result |-> 0, user |-> user]
  IN /\ nRequests' = nRequests + 1
     /\ requests' = [d \in Clients |->
                       IF d = c THEN request
                       ELSE IF InFlight(d) THEN [requests[d] EXCEPT !.overlapped = TRUE]
                       ELSE requests[d]]
     /\ finished' = IF status = 0 THEN finished ELSE Append(finished, request)
     /\ UNCHANGED <<dbAllocations, dbHierarchy, dbSkuData>>
     /\ UNCHANGED periodVars
     /\ UNCHANGED pageVars

\* the request of client c is answered with status and a count
AnswerCount(c, status, count) ==
  /\ requests' = [requests EXCEPT ![c].pc = "done", ![c].status = status, ![c].result = count]
  /\ finished' = Append(finished, [requests[c] EXCEPT !.pc = "done", !.status = status,
                                                      !.result = count])

CreateNames == {Str("Q1"), <<Blank, "Q2">>, <<Blank>>, Str("null")}

CreateBodies ==
  {[period |-> name, copyGiven |-> given, copyFrom |-> from, budget |-> 100] :
     name \in CreateNames, given \in BOOLEAN, from \in {NULL, Str("Q1")}}

\* POST periods, legacy, up to the check that the period exists
CreateLegacyBegin(c) ==
  /\ generation = "legacy"
  /\ ~InFlight(c)
  /\ nRequests < MaxRequests
  /\ \E body \in CreateBodies :
       Receive(c, "create", body,
               IF body.period = Str("") \/ Trim(body.period) = Str("") THEN 400
               ELSE IF PeriodExists(Trim(body.period)) THEN 409
               ELSE 0,
               "rows")

\* POST periods, period budget, up to the check that the period exists
CreateBudgetBegin(c) ==
  /\ generation = "budget"
  /\ ~InFlight(c)
  /\ nRequests < MaxRequests
  /\ \E body \in CreateBodies :
       Receive(c, "create", body,
               IF body.period = Str("") \/ body.budget <= 0 \/ (body.copyGiven /\ body.copyFrom = NULL)
               THEN 400
               ELSE IF PeriodExists(Trim(body.period)) THEN 409
               ELSE 0,
               "budget")

\* await prisma.periodBudget.create
CreateBudget(c) ==
  /\ requests[c].kind = "create" /\ requests[c].pc = "budget"
  /\ LET periodName == Trim(requests[c].body.period)
     IN \E ok \in BOOLEAN :
          IF ok /\ \A b \in dbPeriodBudgets : b.period # periodName
          THEN /\ dbPeriodBudgets' = dbPeriodBudgets \cup
                                       {[period |-> periodName, budget |-> requests[c].body.budget]}
               /\ requests' = [requests EXCEPT ![c].pc = "rows"]
               /\ UNCHANGED finished
          ELSE /\ Answer(c, 500)
               /\ UNCHANGED dbPeriodBudgets
  /\ UNCHANGED <<dbAllocations, dbHierarchy, dbSkuData, nRequests, generation, dbSession>>
  /\ UNCHANGED pageVars

\* the reads of the source rows, the SKU rows and the definitions, and the
\* createMany of the copies or of the placeholders (none when there are none)
CreateRows(c) ==
  /\ requests[c].kind = "create" /\ requests[c].pc = "rows"
  /\ LET periodName == Trim(requests[c].body.period)
         created == CreatedRows(requests[c].body, periodName)
         rows == dbAllocations (+) created
     IN \E ok \in BOOLEAN :
          IF ok /\ UniqueIndexHolds(rows)
          THEN /\ dbAllocations' = rows
               /\ AnswerCount(c, 200, IF CopyApplies(requests[c].body)
                                      THEN BagCardinality(created) ELSE 0)
          ELSE /\ Answer(c, 500)
               /\ UNCHANGED dbAllocations
  /\ UNCHANGED <<dbHierarchy, dbSkuData, nRequests>>
  /\ UNCHANGED periodVars
  /\ UNCHANGED pageVars

UrlPeriods == {Str("Q1"), Str("Q2"), Str("null")}

RenameBodies ==
  {[old |-> segment, newPeriod |-> name] :
     segment \in UrlPeriods, name \in {Str("Q1"), <<Blank, "Q2">>}}

\* PUT periods/[period], legacy, up to the check that the new period exists
RenameLegacyBegin(c) ==
  /\ generation = "legacy"
  /\ ~InFlight(c)
  /\ nRequests < MaxRequests
  /\ \E body \in RenameBodies :
       Receive(c, "rename", body,
               IF body.newPeriod = Str("") \/ Trim(body.newPeriod) = Str("") THEN 400
               ELSE IF \A r \in BagToSet(dbAllocations) : r.period # DecodePeriod(body.old) THEN 404
               ELSE IF PeriodExists(Trim(body.newPeriod)) THEN 409
               ELSE 0,
               "update")

\* await prisma.allocation.updateMany, one statement; updated: oldAllocations.length
RenameLegacyUpdate(c) ==
  /\ requests[c].kind = "rename" /\ requests[c].pc = "update"
  /\ LET old == DecodePeriod(requests[c].body.old)
         new == Trim(requests[c].body.newPeriod)
         rows == RowsNotOfPeriod(dbAllocations, old) (+) RowsRekeyed(dbAllocations, old, new)
     IN \E ok \in BOOLEAN :
          IF ok /\ UniqueIndexHolds(rows)
          THEN /\ dbAllocations' = rows
               /\ AnswerCount(c, 200, BagCardinality(RowsOfPeriod(requests[c].pre.allocations, old)))
          ELSE /\ Answer(c, 500)
               /\ UNCHANGED dbAllocations
  /\ UNCHANGED <<dbHierarchy, dbSkuData, nRequests>>
  /\ UNCHANGED periodVars
  /\ UNCHANGED pageVars

\* PUT periods/[period], period budget, up to the check that the new period
\* exists; a findUnique on the null period finds nothing or is refused
RenameBudgetBegin(c) ==
  /\ generation = "budget"
  /\ ~InFlight(c)
  /\ nRequests < MaxRequests
  /\ \E body \in RenameBodies, refused \in {404, 500} :
       Receive(c, "rename", body,
               IF body.newPeriod = Str("") \/ Trim(body.newPeriod) = Str("") THEN 400
               ELSE IF DecodePeriod(body.old) = NULL THEN refused
               ELSE IF \A b \in dbPeriodBudgets : b.period # DecodePeriod(body.old) THEN 404
               ELSE IF PeriodExists(Trim(body.newPeriod)) THEN 409
               ELSE 0,
               "transaction")

\* the allocation rows after the delete of the budget row of a period: the
\* budget rows and the allocation rows both belong to the session and no
\* allocation row refers to a budget row, so the delete removes no allocation row
AllocationsAfterBudgetDelete(rows, period) == rows

\* budget rows where the row of old stays beside the row of new
BudgetsRenamedOldKept(budgets, old, new, budget) ==
  budgets \cup {[period |-> new, budget |-> budget]}

\* the budget rows after the delete of old and the create of new with budget
BudgetsRenamed(budgets, old, new, budget) ==
  {b \in budgets : b.period # old} \cup {[period |-> new, budget |-> budget]}

\* await prisma.$transaction: periodBudget.delete, periodBudget.create and
\* allocation.updateMany, committed together or not at all
RenameBudgetTransaction(c) ==
  /\ requests[c].kind = "rename" /\ requests[c].pc = "transaction"
  /\ LET old == DecodePeriod(requests[c].body.old)
         new == Trim(requests[c].body.newPeriod)
         oldPeriodBudget == CHOOSE b \in requests[c].pre.budgets : b.period = old
         kept == AllocationsAfterBudgetDelete(dbAllocations, old)
         rows == RowsNotOfPeriod(kept, old) (+) RowsRekeyed(kept, old, new)
     IN \E ok \in BOOLEAN :
          IF /\ ok
             /\ \E b \in dbPeriodBudgets : b.period = old
             /\ \A b \in dbPeriodBudgets : b.period # new
             /\ UniqueIndexHolds(rows)
          THEN /\ dbPeriodBudgets' = BudgetsRenamed(dbPeriodBudgets, old, new, oldPeriodBudget.budget)
               /\ dbAllocations' = rows
               /\ AnswerCount(c, 200, BagCardinality(RowsOfPeriod(dbAllocations, old)))
          ELSE /\ Answer(c, 500)
               /\ UNCHANGED <<dbPeriodBudgets, dbAllocations>>
  /\ UNCHANGED <<dbHierarchy, dbSkuData, nRequests, generation, dbSession>>
  /\ UNCHANGED pageVars

\* the bodies of the PUT that renames a period or updates its budget: budget
\* is NULL when the body has none
RenameOrBudgetBodies ==
  {[old |-> segment, newPeriod |-> name, budget |-> budget] :
     segment \in UrlPeriods, name \in {Str("Q1"), <<Blank, "Q2">>}, budget \in {NULL, <<200>>}}

\* PUT periods/[period] that renames or updates the budget, up to the check
\* that the new period exists, made only when the name changes
RenameOrBudgetBegin(c) ==
  /\ generation = "budget"
  /\ ~InFlight(c)
  /\ nRequests < MaxRequests
  /\ \E body \in RenameOrBudgetBodies, refused \in {404, 500} :
       LET isPeriodNameChanging == DecodePeriod(body.old) # Trim(body.newPeriod)
       IN Receive(c, "rename", body,
                  IF body.newPeriod = Str("") \/ Trim(body.newPeriod) = Str("") THEN 400
                  ELSE IF body.budget # NULL /\ body.budget[1] <= 0 THEN 400
                  ELSE IF DecodePeriod(body.old) = NULL THEN refused
                  ELSE IF \A b \in dbPeriodBudgets : b.period # DecodePeriod(body.old) THEN 404
                  ELSE IF isPeriodNameChanging /\ PeriodExists(Trim(body.newPeriod)) THEN 409
                  ELSE 0,
                  "renameOrBudget")

\* await prisma.$transaction: the delete, the create and the updateMany when
\* the name changes, the periodBudget.update otherwise, committed together or
\* not at all
RenameOrBudgetTransaction(c) ==
  /\ requests[c].kind = "rename" /\ requests[c].pc = "renameOrBudget"
  /\ LET body == requests[c].body
         old == DecodePeriod(body.old)
         new == Trim(body.newPeriod)
         oldPeriodBudget == CHOOSE b \in requests[c].pre.budgets : b.period = old
         budget == IF body.budget # NULL THEN body.budget[1] ELSE oldPeriodBudget.budget
         kept == AllocationsAfterBudgetDelete(dbAllocations, old)
         rows == RowsNotOfPeriod(kept, old) (+) RowsRekeyed(kept, old, new)
     IN \E ok \in BOOLEAN :
          IF old # new
          THEN IF /\ ok
                  /\ \E b \in dbPeriodBudgets : b.period = old
                  /\ \A b \in dbPeriodBudgets : b.period # new
                  /\ UniqueIndexHolds(rows)
               THEN /\ dbPeriodBudgets' = BudgetsRenamed(dbPeriodBudgets, old, new, budget)
                    /\ dbAllocations' = rows
                    /\ AnswerCount(c, 200, BagCardinality(RowsOfPeriod(dbAllocations, old)))
               ELSE /\ Answer(c, 500)
                    /\ UNCHANGED <<dbPeriodBudgets, dbAllocations>>
          ELSE IF ok /\ \E b \in dbPeriodBudgets : b.period = old
               THEN /\ dbPeriodBudgets' = BudgetsRenamed(dbPeriodBudgets, old, old, budget)
                    /\ AnswerCount(c, 200, 0)
                    /\ UNCHANGED dbAllocations
               ELSE /\ Answer(c, 500)
                    /\ UNCHANGED <<dbPeriodBudgets, dbAllocations>>
  /\ UNCHANGED <<dbHierarchy, dbSkuData, nRequests, generation, dbSession>>
  /\ UNCHANGED pageVars

\* DELETE periods/[period], legacy, up to the check of the session
DeleteLegacyBegin(c) ==
  /\ generation = "legacy"
  /\ ~InFlight(c)
  /\ nRequests < MaxRequests
  /\ \E segment \in UrlPeriods : Receive(c, "delete", [period |-> segment], 0, "rows")

\* await prisma.allocation.deleteMany of the period, legacy: 404 when result.count is 0
DeleteLegacyRows(c) ==
  /\ generation = "legacy"
  /\ requests[c].kind = "delete" /\ requests[c].pc = "rows"
  /\ LET period == DecodePeriod(requests[c].body.period)
         count == BagCardinality(RowsOfPeriod(dbAllocations, period))
     IN \E ok \in BOOLEAN :
          IF ok
          THEN /\ dbAllocations' = RowsNotOfPeriod(dbAllocations, period)
               /\ AnswerCount(c, IF count = 0 THEN 404 ELSE 200, count)
          ELSE /\ Answer(c, 500)
               /\ UNCHANGED dbAllocations
  /\ UNCHANGED <<dbHierarchy, dbSkuData, nRequests>>
  /\ UNCHANGED periodVars
  /\ UNCHANGED pageVars

\* DELETE periods/[period], period budget, up to the check that the budget
\* exists; the period of the null key is refused, by the handler's own check
\* (400) or by the findUnique, which finds nothing or fails
DeleteBudgetBegin(c) ==
  /\ generation = "budget"
  /\ ~InFlight(c)
  /\ nRequests < MaxRequests
  /\ \E segment \in UrlPeriods, refused \in {400, 404, 500} :
       Receive(c, "delete", [period |-> segment],
               IF DecodePeriod(segment) = NULL THEN refused
               ELSE IF \A b \in dbPeriodBudgets : b.period # DecodePeriod(segment) THEN 404
               ELSE 0,
               "budget")

\* await prisma.periodBudget.delete
DeleteBudget(c) ==
  /\ requests[c].kind = "delete" /\ requests[c].pc = "budget"
  /\ LET period == DecodePeriod(requests[c].body.period)
     IN \E ok \in BOOLEAN :
          IF ok /\ \E b \in dbPeriodBudgets : b.period = period
          THEN /\ dbPeriodBudgets' = {b \in dbPeriodBudgets : b.period # period}
               /\ dbAllocations' = AllocationsAfterBudgetDelete(dbAllocations, period)
               /\ requests' = [requests EXCEPT ![c].pc = "rows"]
               /\ UNCHANGED finished
          ELSE /\ Answer(c, 500)
               /\ UNCHANGED <<dbPeriodBudgets, dbAllocations>>
  /\ UNCHANGED <<dbHierarchy, dbSkuData, nRequests, generation, dbSession>>
  /\ UNCHANGED pageVars

\* await prisma.allocation.deleteMany of the period, period budget
DeleteBudgetRows(c) ==
  /\ generation = "budget"
  /\ requests[c].kind = "delete" /\ requests[c].pc = "rows"
  /\ LET period == DecodePeriod(requests[c].body.period)
     IN \E ok \in BOOLEAN :
          IF ok
          THEN /\ dbAllocations' = RowsNotOfPeriod(dbAllocations, period)
               /\ AnswerCount(c, 200, BagCardinality(RowsOfPeriod(dbAllocations, period)))
          ELSE /\ Answer(c, 500)
               /\ UNCHANGED dbAllocations
  /\ UNCHANGED <<dbHierarchy, dbSkuData, nRequests>>
  /\ UNCHANGED periodVars
  /\ UNCHANGED pageVars

\* the import and the save a seeded store comes from
SeedImport ==
  [skuData |-> <<Sku(<<"S">>, 1000, <<"A">>, <<"R">>), Sku(<<"T">>, 2000, <<"A">>, <<>>),
                 Sku(<<"U">>, 1000, <<"B">>, <<"R">>), Sku(<<"V">>, 2000, <<"B">>, <<"G">>)>>,
   hierarchyColumns |-> Columns]

SeedSave ==
  <<Row(<<"A">>, 1, 100, 100, 0, NULL),
    Row(<<"A", SEP, "R", SEP, "S">>, 3, 100, 50, 0, Str("Q1")),
    Row(<<"A", SEP, "T">>, 3, 50, 25, 0, Str("Q1"))>>

\* the budget rows a store may hold beside: none, or the one of a period created
SeededBudgets ==
  IF generation = "legacy" THEN {{}} ELSE {{}, {[period |-> Str("Q1"), budget |-> 100]}}

\* the stores of a session: as created, after an import, after an import and a save
SeededStores ==
  {[allocations |-> EmptyBag, hierarchy |-> <<>>, skuData |-> <<>>],
   [allocations |-> EmptyBag, hierarchy |-> hierarchyDefinitionRows(SeedImport.hierarchyColumns),
    skuData |-> SeedImport.skuData],
   [allocations |-> BagOfSeq(allocationRecords(SeedSave)),
    hierarchy |-> hierarchyDefinitionRows(SeedImport.hierarchyColumns),
    skuData |-> SeedImport.skuData]}

PeriodInit ==
  /\ session = [totalBudget |-> NumToString(100), hierarchyDefinitions |-> <<>>]
  /\ skuData = <<>>
  /\ allocations = <<>>
  /\ availablePeriods = <<>>
  /\ hierarchyTree = EmptyTree
  /\ lastEdit = <<>>
  /\ csvRows = <<>>
  /\ nEdits = 0
  /\ generation \in Generations
  /\ \E store \in SeededStores :
       /\ dbAllocations = store.allocations
       /\ dbHierarchy = store.hierarchy
       /\ dbSkuData = store.skuData
  /\ dbPeriodBudgets \in SeededBudgets
  /\ dbSession = SessionCreated
  /\ requests = [c \in Clients |-> NoRequest]
  /\ nRequests = 0
  /\ finished = <<>>

PeriodNext ==
  \/ \E c \in Clients : CreateLegacyBegin(c)
  \/ \E c \in Clients : CreateBudgetBegin(c)
  \/ \E c \in Clients : CreateBudget(c)
  \/ \E c \in Clients : CreateRows(c)
  \/ \E c \in Clients : RenameLegacyBegin(c)
  \/ \E c \in Clients : RenameLegacyUpdate(c)
  \/ \E c \in Clients : RenameBudgetBegin(c)
  \/ \E c \in Clients : RenameBudgetTransaction(c)
  \/ \E c \in Clients : RenameOrBudgetBegin(c)
  \/ \E c \in Clients : RenameOrBudgetTransaction(c)
  \/ \E c \in Clients : DeleteLegacyBegin(c)
  \/ \E c \in Clients : DeleteLegacyRows(c)
  \/ \E c \in Clients : DeleteBudgetBegin(c)
  \/ \E c \in Clients : DeleteBudget(c)
  \/ \E c \in Clients : DeleteBudgetRows(c)
  \/ \E c \in Clients : ImportBegin(c)
  \/ \E c \in Clients : ImportDelete(c)
  \/ \E c \in Clients : ImportCreateHierarchy(c)
  \/ \E c \in Clients : ImportCreateSkus(c)

SpecPeriods == PeriodInit /\ [][PeriodNext]_vars

\* the last request answered was of kind, was answered with every other
\* request answered, and ran without another request in flight
Alone(kind) == Quiet /\ Last.kind = kind /\ ~Last.overlapped

\* C11: after a successful import that no other request overlapped, no
\* allocation row is left, the SKU rows are the imported ones, and the
\* hierarchy definitions are the request's columns in order, levels 1..N.
C11_ImportReplacesAll ==
  (Alone("import") /\ Last.status = 200) =>
    /\ dbAllocations = EmptyBag
    /\ dbSkuData = Last.body.skuData
    /\ Len(dbHierarchy) = Len(Last.body.hierarchyColumns)
    /\ \A i \in 1..Len(dbHierarchy) :
         dbHierarchy[i].level = i /\ dbHierarchy[i].columnName = Last.body.hierarchyColumns[i]

\* a successful import into a store that held allocation rows of two periods,
\* four SKUs and two hierarchy definitions, and now holds other SKUs and columns
C11_Witness ==
  /\ Alone("import") /\ Last.status = 200
  /\ \E r, q \in BagToSet(Last.pre.allocations) : r.period # q.period
  /\ Len(Last.pre.skuData) = 4 /\ Len(Last.pre.hierarchy) = 2
  /\ dbSkuData # Last.pre.skuData
  /\ Len(dbHierarchy) = 1

\* the periods listed before the last request
ListedBefore == PeriodListOf(Last.pre.allocations, Last.pre.budgets)

IsListedBefore(period) == \E i \in 1..Len(ListedBefore) : ListedBefore[i] = period

\* C12: after a successful create that names a listed period P as its copy
\* source (the period of the null key included) and that no other request
\* overlapped, the new period holds, for each row of P, a row of the same
\* path, level, percentage, amount and quantity, and the rows of P are as before.
C12_AsClaimed ==
  (Alone("create") /\ Last.status = 200 /\ Last.body.copyGiven
     /\ IsListedBefore(Last.body.copyFrom)) =>
    LET P == Last.body.copyFrom
        new == Trim(Last.body.period)
    IN /\ \A r \in BagToSet(Last.pre.allocations) :
            r.period = P =>
              CopiesIn([r EXCEPT !.period = new], dbAllocations)
                >= CopiesIn(r, Last.pre.allocations)
       /\ \A r \in BagToSet(Last.pre.allocations) \cup BagToSet(dbAllocations) :
            r.period = P => CopiesIn(r, dbAllocations) = CopiesIn(r, Last.pre.allocations)

\* the same, for the copy sources that are not the period of the null key
C12_NamedSource ==
  (Alone("create") /\ Last.status = 200 /\ Last.body.copyGiven
     /\ IsListedBefore(Last.body.copyFrom) /\ Last.body.copyFrom # NULL) =>
    LET P == Last.body.copyFrom
        new == Trim(Last.body.period)
    IN /\ \A r \in BagToSet(Last.pre.allocations) :
            r.period = P =>
              CopiesIn([r EXCEPT !.period = new], dbAllocations)
                >= CopiesIn(r, Last.pre.allocations)
       /\ \A r \in BagToSet(Last.pre.allocations) \cup BagToSet(dbAllocations) :
            r.period = P => CopiesIn(r, dbAllocations) = CopiesIn(r, Last.pre.allocations)

\* the body of the last create passes the validation of its generation
\* (periodSchema: copyFrom, when given, is a string; the legacy POST takes any)
CreateBodyValid ==
  generation = "budget" => ~(Last.body.copyGiven /\ Last.body.copyFrom = NULL)

Made == {r \in BagToSet(dbAllocations) : CopiesIn(r, dbAllocations) > CopiesIn(r, Last.pre.allocations)}

\* the last request is a successful create that copied nothing: the rows it
\* made are placeholders
MadePlaceholders == Alone("create") /\ Last.status = 200 /\ Last.result = 0

\* C14: every placeholder row made by a create that no other request
\* overlapped has amount 0 and quantity 0, and has percentage 100 when no
\* other placeholder path has the same parent path (for a top level path: when
\* it is the only top level path) and percentage 0 otherwise.
C14_PlaceholderPercentages ==
  MadePlaceholders =>
    \A r \in Made :
      /\ r.period = Trim(Last.body.period)
      /\ r.amount = 0 /\ r.quantity = 0
      /\ r.percentage =
           IF \A q \in Made : ParentOf(q.hierarchyPath) = ParentOf(r.hierarchyPath) => q = r
           THEN 100 ELSE 0

\* placeholders made with a path that is a sole child, at percentage 100, and
\* top level paths and sibling paths at percentage 0
C14_Witness ==
  /\ MadePlaceholders
  /\ \E r, q, s \in Made :
       /\ SegmentCount(r.hierarchyPath) = 2 /\ r.percentage = 100
       /\ SegmentCount(q.hierarchyPath) = 2 /\ q.percentage = 0
       /\ SegmentCount(s.hierarchyPath) = 1 /\ s.percentage = 0

\* the paths of the nodes of the tree the Tree Builder makes of the SKU rows
\* and the definitions held before the last request
TreePathsBefore ==
  LET tree == buildHierarchyTree(Last.pre.skuData, ColumnsByLevel(Last.pre.hierarchy, 1))
  IN {tree.nodes[n].path : n \in DOMAIN tree.nodes}

\* C15, as stated: the paths of the placeholder rows made by a create that no
\* other request overlapped are the paths of the nodes of the Tree Builder's
\* tree: every intermediate node and every SKU leaf.
C15_AsClaimed ==
  MadePlaceholders => {r.hierarchyPath : r \in Made} = TreePathsBefore

\* what the create does make: a placeholder for every intermediate path of a
\* SKU that has a value at each level down to that path, and no other
C15_CompleteIntermediatePaths ==
  MadePlaceholders =>
    {r.hierarchyPath : r \in Made} =
      IF Last.pre.hierarchy = <<>> THEN {}
      ELSE {buildHierarchyPath(Last.pre.skuData[k], ColumnsByLevel(Last.pre.hierarchy, 1), level) :
              <<k, level>> \in
                {kl \in (1..Len(Last.pre.skuData)) \X (1..Len(Last.pre.hierarchy)) :
                   \A i \in 1..kl[2] :
                     Last.pre.skuData[kl[1]].hierarchyValues[
                       ColumnsByLevel(Last.pre.hierarchy, 1)[i]] # <<>>}}

\* C16, as stated: after a successful create that no other request
\* overlapped, the period is listed by the period list and a second create of
\* it would find it, whatever the SKU rows and the definitions of the session.
C16_AsClaimed ==
  (Alone("create") /\ Last.status = 200) =>
    /\ \E i \in 1..Len(PeriodList) : PeriodList[i] = Trim(Last.body.period)
    /\ PeriodExists(Trim(Last.body.period))

\* the same, for the period budget generation alone
C16_WithPeriodBudget ==
  (Alone("create") /\ Last.status = 200 /\ generation = "budget") =>
    /\ \E i \in 1..Len(PeriodList) : PeriodList[i] = Trim(Last.body.period)
    /\ PeriodExists(Trim(Last.body.period))

\* the number of rows of the period in the bag
CountOf(rows, period) == BagCardinality(RowsOfPeriod(rows, period))

\* the last rename moved the rows of old to new: none is left under old, as
\* many are under new as were under old, each with its path, level,
\* percentage, amount and quantity, and the rows of the other periods are as before
RenameMoved ==
  LET old == DecodePeriod(Last.body.old)
      new == Trim(Last.body.newPeriod)
      before == Last.pre.allocations
  IN /\ CountOf(dbAllocations, old) = 0
     /\ CountOf(dbAllocations, new) = CountOf(before, old)
     /\ \A r \in BagToSet(before) :
          r.period = old => CopiesIn([r EXCEPT !.period = new], dbAllocations) >= CopiesIn(r, before)
     /\ \A r \in BagToSet(before) \cup BagToSet(dbAllocations) :
          r.period \notin {old, new} => CopiesIn(r, dbAllocations) = CopiesIn(r, before)

\* the last request names a new period that is not the old one
NameChanges == DecodePeriod(Last.body.old) # Trim(Last.body.newPeriod)

\* C17, as stated: after a successful rename to another name that no other
\* request overlapped, in either generation, the rows of old have moved to new, which
\* holds as many rows as old held, and the other rows are unchanged.
C17_AsClaimed == (Alone("rename") /\ Last.status = 200 /\ NameChanges) => RenameMoved

\* the same, for the legacy generation alone
C17_Legacy ==
  (Alone("rename") /\ Last.status = 200 /\ NameChanges /\ generation = "legacy") => RenameMoved

\* the same, for the period budget generation when no allocation row named
\* the new period beforehand
C17_WithPeriodBudgetNoRowsUnderNew ==
  (Alone("rename") /\ Last.status = 200 /\ NameChanges /\ generation = "budget"
     /\ CountOf(Last.pre.allocations, Trim(Last.body.newPeriod)) = 0) => RenameMoved

RenameStepOf(c) ==
  /\ generation = "budget"
  /\ requests'[c].kind = "rename"
  /\ requests'[c].seq # requests[c].seq \/ requests'[c].pc # requests[c].pc

\* C19: every step of a rename in the period budget generation, with other
\* requests in flight or not, either leaves every budget row and every
\* allocation row as it was (and the rename has not succeeded), or moves the
\* budget row and all the rows of the period at once: no budget row under the
\* old name, one under the new name, no row under the old name, each row of
\* the old name under the new name, everything else as it was. (A request
\* that names the old name as the new one moves nothing: it leaves the rows
\* and the periods of the budget rows as they were.)
C19_RenameAtomic ==
  [][\A c \in Clients :
       RenameStepOf(c) =>
         LET old == DecodePeriod(requests'[c].body.old)
             new == Trim(requests'[c].body.newPeriod)
         IN \/ /\ requests'[c].status # 200
               /\ dbPeriodBudgets' = dbPeriodBudgets
               /\ dbAllocations' = dbAllocations
            \/ /\ requests'[c].status = 200
               /\ old = new
               /\ {b.period : b \in dbPeriodBudgets'} = {b.period : b \in dbPeriodBudgets}
               /\ dbAllocations' = dbAllocations
            \/ /\ requests'[c].status = 200
               /\ old # new
               /\ \E b \in dbPeriodBudgets : b.period = old
               /\ \A b \in dbPeriodBudgets : b.period # new
               /\ \A b \in dbPeriodBudgets' : b.period # old
               /\ Cardinality({b \in dbPeriodBudgets' : b.period = new}) = 1
               /\ {b \in dbPeriodBudgets' : b.period # new} = {b \in dbPeriodBudgets : b.period # old}
               /\ CountOf(dbAllocations', old) = 0
               /\ \A r \in BagToSet(dbAllocations) :
                    r.period = old =>
                      CopiesIn([r EXCEPT !.period = new], dbAllocations')
                        = CopiesIn(r, dbAllocations) + CopiesIn([r EXCEPT !.period = new], dbAllocations)
               /\ \A r \in BagToSet(dbAllocations) \cup BagToSet(dbAllocations') :
                    r.period \notin {old, new} =>
                      CopiesIn(r, dbAllocations') = CopiesIn(r, dbAllocations)]_vars

\* a rename in the period budget generation that moved a budget row and two
\* rows while another request was in flight, and one that failed at its
\* transaction
C19_Witness ==
  /\ generation = "budget"
  /\ Len(finished) = 2
  /\ \E i, j \in 1..2 :
       /\ finished[i].kind = "rename" /\ finished[i].status = 200
       /\ finished[i].overlapped /\ finished[i].result = 2
       /\ finished[j].kind = "rename" /\ finished[j].status = 500

C20_LegacyReached ==
  /\ Alone("delete") /\ Last.status = 200
  /\ generation = "legacy"
  /\ DecodePeriod(Last.body.period) = NULL
  /\ Last.result = 1
  /\ dbAllocations # EmptyBag

\* C21, as stated: a request that changes the store (an import, a create, a
\* rename or a delete of a period), sent by a user who is not the owner and
\* overlapped by no other request, is refused and leaves the allocation rows,
\* the budget rows, the SKU rows and the definitions as they were.
C21_AsClaimed ==
  (Quiet /\ ~Last.overlapped /\ Last.user # Owner) =>
    /\ Last.status # 200
    /\ Snapshot = Last.pre

\* the same, for the import alone, which asks for the owner
C21_ImportByOtherRefused ==
  (Alone("import") /\ Last.user # Owner) => (Last.status = 403 /\ Snapshot = Last.pre)

(***************************************************************************)
(* The session row and the reads: GET and PUT and DELETE of the session,   *)
(* GET of the SKU rows, of the allocation rows, of the periods, and the    *)
(* export. Each handler answers after one store call, so each is one step. *)
(***************************************************************************)
MaxCalls == 2

Statuses == {"draft", "confirmed", "archived"}

\* a handler that runs in one step answers a user: the call is recorded with
\* the store and the session row it found
Call(kind, user, body, status) ==
  /\ nRequests' = nRequests + 1
  /\ finished' = Append(finished,
                        [client |-> 0, kind |-> kind, pc |-> "done", status |-> status,
                         body |-> body, seq |-> nRequests + 1, pre |-> Snapshot,
                         overlapped |-> FALSE, result |-> 0, user |-> user,
                         sessionBefore |-> dbSession])
  /\ UNCHANGED requests

\* budgetSession.status === 'draft' && budgetSession.category.userId !== session.user.id
DraftOfAnother(user) == dbSession.status = "draft" /\ user # Owner

\* GET sessions/[id], GET sku-data, GET allocations: 404 without the session,
\* 403 for a draft of another user
ReadGuarded(op) ==
  /\ \E user \in Users :
       Call("read", user, [op |-> op],
            IF ~dbSession.exists THEN 404
            ELSE IF DraftOfAnother(user) THEN 403
            ELSE 200)
  /\ UNCHANGED <<dbAllocations, dbHierarchy, dbSkuData, periodVars>>
  /\ UNCHANGED pageVars

ReadSession ==
  /\ nRequests < MaxCalls
  /\ ReadGuarded("session")

ReadSkuData ==
  /\ nRequests < MaxCalls
  /\ ReadGuarded("sku-data")

ReadAllocations ==
  /\ nRequests < MaxCalls
  /\ ReadGuarded("allocations")

\* GET periods, either generation: the session is looked up, the caller is not
ReadPeriods ==
  /\ nRequests < MaxCalls
  /\ \E user \in Users :
       Call("read", user, [op |-> "periods"], IF ~dbSession.exists THEN 404 ELSE 200)
  /\ UNCHANGED <<dbAllocations, dbHierarchy, dbSkuData, periodVars>>
  /\ UNCHANGED pageVars

\* GET export: findFirst of the session among the sessions of the caller's categories
ReadExport ==
  /\ nRequests < MaxCalls
  /\ \E user \in Users :
       Call("read", user, [op |-> "export"],
            IF ~dbSession.exists \/ user # Owner THEN 404 ELSE 200)
  /\ UNCHANGED <<dbAllocations, dbHierarchy, dbSkuData, periodVars>>
  /\ UNCHANGED pageVars

\* the bodies of PUT sessions/[id]: a field is NULL when the body has none
UpdateBodies ==
  {[totalBudget |-> budget, status |-> status] :
     budget \in {NULL, <<200>>, <<0>>}, status \in {NULL} \cup {Str(s) : s \in Statuses}}

\* updateSessionSchema
updateSessionSchemaOk(data) == data.totalBudget # NULL => data.totalBudget[1] > 0

\* PUT sessions/[id]: the schema, the session, the creator, then session.update
\* of the fields given (the allocation rows are not part of the update)
SessionUpdate ==
  /\ nRequests < MaxCalls
  /\ \E user \in Users, data \in UpdateBodies, ok \in BOOLEAN :
       LET status == IF ~updateSessionSchemaOk(data) THEN 400
                     ELSE IF ~dbSession.exists THEN 404
                     ELSE IF user # Owner THEN 403
                     ELSE IF ok THEN 200 ELSE 500
       IN /\ Call("update", user, data, status)
          /\ dbSession' =
               IF status = 200
               THEN [dbSession EXCEPT
                       !.status = IF data.status # NULL THEN data.status[1] ELSE @,
                       !.totalBudget = IF data.totalBudget # NULL THEN data.totalBudget[1] ELSE @]
               ELSE dbSession
  /\ UNCHANGED <<dbAllocations, dbHierarchy, dbSkuData, generation, dbPeriodBudgets>>
  /\ UNCHANGED pageVars

\* DELETE sessions/[id]: the session, the creator, then session.delete, which
\* takes the rows the session owns with it
SessionDelete ==
  /\ nRequests < MaxCalls
  /\ \E user \in Users, ok \in BOOLEAN :
       LET status == IF ~dbSession.exists THEN 404
                     ELSE IF user # Owner THEN 403
                     ELSE IF ok THEN 200 ELSE 500
       IN /\ Call("delete-session", user, <<>>, status)
          /\ IF status = 200
             THEN /\ dbSession' = [dbSession EXCEPT !.exists = FALSE]
                  /\ dbAllocations' = EmptyBag
                  /\ dbHierarchy' = <<>>
                  /\ dbSkuData' = <<>>
                  /\ dbPeriodBudgets' = {}
             ELSE UNCHANGED <<dbSession, dbAllocations, dbHierarchy, dbSkuData, dbPeriodBudgets>>
  /\ UNCHANGED generation
  /\ UNCHANGED pageVars

\* the levels asked of auto-allocate: none that passes the schema (0), a level
\* of the hierarchy (1) and one beyond it (3); level 2 has three paths in the
\* stores below, and a third of 100 is no whole percentage
AutoAllocateLevels == {0, 1, 3}

\* autoAllocateSchema
autoAllocateSchemaOk(level) == level > 0

\* hierarchyPaths of auto-allocate: the complete paths of the SKUs at the level
AutoAllocatePaths(skus, definitions, level) ==
  UNION {CompletePath(skus[k], ColumnsByLevel(definitions, 1), level) : k \in 1..Len(skus)}

\* prisma.allocation.deleteMany({ where: { sessionId: id, level } })
RowsNotOfLevel(rows, level) == LET Keep(r) == r.level # level IN BagFilter(rows, Keep)

\* the rows auto-allocate creates: one per path, the equal share, no period given
AutoAllocateRows(skus, definitions, level, totalBudget) ==
  LET paths == AutoAllocatePaths(skus, definitions, level)
      percentage == IF paths # {} THEN 100 \div Cardinality(paths) ELSE 0
      amount == FloorMulPct(totalBudget, percentage)
  IN SetToBag({Row(path, level, percentage, amount, 0, NULL) : path \in paths})

\* POST auto-allocate: the session of the caller, the schema, the SKU rows, the
\* definition of the level, then deleteMany of the level and createMany, two
\* statements outside any transaction: the second may fail after the first
AutoAllocate ==
  /\ nRequests < MaxCalls
  /\ \E user \in Users, level \in AutoAllocateLevels, deleted \in BOOLEAN, created \in BOOLEAN :
       LET status == IF ~dbSession.exists \/ user # Owner THEN 404
                     ELSE IF ~autoAllocateSchemaOk(level) THEN 400
                     ELSE IF dbSkuData = <<>> THEN 400
                     ELSE IF \A i \in 1..Len(dbHierarchy) : dbHierarchy[i].level # level THEN 400
                     ELSE IF deleted /\ created THEN 200 ELSE 500
           kept == RowsNotOfLevel(dbAllocations, level)
       IN /\ Call("auto-allocate", user, [level |-> level], status)
          /\ dbAllocations' =
               IF status = 200
               THEN kept (+) AutoAllocateRows(dbSkuData, dbHierarchy, level, dbSession.totalBudget)
               ELSE IF status = 500 /\ deleted THEN kept
               ELSE dbAllocations
  /\ UNCHANGED <<dbHierarchy, dbSkuData, periodVars>>
  /\ UNCHANGED pageVars

\* the stores a session call may find: the seeded ones, and the saved one
\* after a create of the period Q2 has added its placeholder rows
SessionStores ==
  SeededStores \cup
    {[allocations |-> BagOfSeq(allocationRecords(SeedSave))
                        (+) PlaceholderRows(SeedImport.skuData,
                                            hierarchyDefinitionRows(SeedImport.hierarchyColumns), Str("Q2")),
      hierarchy |-> hierarchyDefinitionRows(SeedImport.hierarchyColumns),
      skuData |-> SeedImport.skuData]}

SessionInit ==
  /\ session = [totalBudget |-> NumToString(100), hierarchyDefinitions |-> <<>>]
  /\ skuData = <<>>
  /\ allocations = <<>>
  /\ availablePeriods = <<>>
  /\ hierarchyTree = EmptyTree
  /\ lastEdit = <<>>
  /\ csvRows = <<>>
  /\ nEdits = 0
  /\ generation \in Generations
  /\ \E store \in SessionStores :
       /\ dbAllocations = store.allocations
       /\ dbHierarchy = store.hierarchy
       /\ dbSkuData = store.skuData
  /\ dbPeriodBudgets \in SeededBudgets
  /\ dbSession = SessionCreated
  /\ requests = [c \in Clients |-> NoRequest]
  /\ nRequests = 0
  /\ finished = <<>>

SessionNext ==
  \/ ReadSession
  \/ ReadSkuData
  \/ ReadAllocations
  \/ ReadPeriods
  \/ ReadExport
  \/ SessionUpdate
  \/ SessionDelete
  \/ AutoAllocate

SpecSession == SessionInit /\ [][SessionNext]_vars

\* the last call was a read by a user who is not the owner, of a session that exists
ReadByOther == finished # <<>> /\ Last.kind = "read" /\ Last.user # Owner /\ Last.sessionBefore.exists

\* C22, as stated: a read of the session, the SKU rows, the allocation rows,
\* the periods or the export by a user who is not the owner is permitted when
\* the session is confirmed or archived and refused when it is a draft.
C22_AsClaimed ==
  ReadByOther =>
    (Last.status = 200) = (Last.sessionBefore.status \in {"confirmed", "archived"})

\* the same, for the reads of the session, the SKU rows and the allocation rows
C22_GuardedReads ==
  (ReadByOther /\ Last.body.op \in {"session", "sku-data", "allocations"}) =>
    /\ (Last.status = 200) = (Last.sessionBefore.status \in {"confirmed", "archived"})
    /\ (Last.status = 403) = (Last.sessionBefore.status = "draft")

\* the last call was a successful change of the total budget
BudgetChanged ==
  finished # <<>> /\ Last.kind = "update" /\ Last.status = 200 /\ Last.body.totalBudget # NULL

\* C25, as stated: after the owner has changed the total budget, the amount of
\* every stored allocation row of level 1 is floor(new budget * percentage / 100).
C25_AsClaimed ==
  BudgetChanged =>
    \A r \in BagToSet(dbAllocations) :
      r.level = 1 => r.amount = (dbSession.totalBudget * r.percentage) \div 100

\* what the update does: the session row takes the new budget and no
\* allocation row, budget row, SKU row or definition changes
C25_OnlySessionRowChanges ==
  BudgetChanged =>
    /\ dbSession.totalBudget = Last.body.totalBudget[1]
    /\ Snapshot = Last.pre

(***************************************************************************)
(* The over-limit indicator of the spreadsheet page: getSiblingsTotal and  *)
(* the rendering of a percentage cell.                                     *)
(***************************************************************************)
\* node.periodData.get(period)?.percentage || 0: periodData is filled from the
\* allocations of the node's path in order, a later one replacing an earlier one
PeriodPercentage(allocs, path, period) ==
  LET hits == {i \in 1..Len(allocs) :
                 allocs[i].hierarchyPath = path /\ PeriodOrNull(allocs[i].period) = period}
  IN IF hits = {} THEN 0
     ELSE allocs[CHOOSE i \in hits : \A j \in hits : j <= i].percentage

RECURSIVE ChildrenFrom(_, _, _)
ChildrenFrom(edges, n, k) ==
  IF k > Len(edges) THEN <<>>
  ELSE (IF edges[k][1] = n THEN <<edges[k][2]>> ELSE <<>>) \o ChildrenFrom(edges, n, k + 1)

\* node.children, in the order they were pushed
ChildrenOf(t, n) == ChildrenFrom(t.edges, n, 1)

RECURSIVE findSiblings(_, _, _)
\* the depth-first search of getSiblingsTotal for the children of the node at parentPath
findSiblings(t, nodes, parentPath) ==
  IF nodes = <<>> THEN <<>>
  ELSE LET n == Head(nodes)
           children == ChildrenOf(t, n)
           found == IF children # <<>> THEN findSiblings(t, children, parentPath) ELSE <<>>
       IN IF t.nodes[n].path = parentPath THEN children
          ELSE IF found # <<>> THEN found
          ELSE findSiblings(t, Tail(nodes), parentPath)

RECURSIVE SumPercentages(_, _, _, _)
\* nodes.reduce((sum, n) => sum + (n.periodData.get(period)?.percentage || 0), 0)
SumPercentages(t, allocs, nodes, period) ==
  IF nodes = <<>> THEN 0
  ELSE PeriodPercentage(allocs, t.nodes[Head(nodes)].path, period)
         + SumPercentages(t, allocs, Tail(nodes), period)

getSiblingsTotal(t, allocs, n, period) ==
  LET path == t.nodes[n].path
  IN IF SegmentCount(path) = 1 THEN SumPercentages(t, allocs, t.tree, period)
     ELSE SumPercentages(t, allocs, findSiblings(t, t.tree, ParentOf(path)), period)

\* an indicator that is raised from 100 on
isOverLimitFromHundred(t, allocs, n, period) == getSiblingsTotal(t, allocs, n, period) >= 100

\* const isOverLimit = siblingsTotal > 100
isOverLimit(t, allocs, n, period) == getSiblingsTotal(t, allocs, n, period) > 100

\* allocations.map(a => ({ ...a, amount: parseInt(a.amount) })) of saveAllocations
allocationsToSave(allocs) == [i \in 1..Len(allocs) |-> [allocs[i] EXCEPT !.amount = ParseInt(@)]]

(***************************************************************************)
(* Editing percentages on a page whose SKUs may hold the separator in a    *)
(* code or a hierarchy value: one period, one budget.                      *)
(***************************************************************************)
SiblingSkus ==
  {Sku(code, 1000, category, color) :
     code \in {<<"S">>, <<"T">>, <<"S", SEP, "T">>},
     category \in {<<"A">>, <<"A", SEP, "R">>},
     color \in {<<"R">>, <<"R", SEP, "S">>}}

SiblingsInit ==
  /\ session = [totalBudget |-> NumToString(100), hierarchyDefinitions |-> Columns]
  /\ skuData \in SkuLists(SiblingSkus, MaxSkus) \ {<<>>}
  /\ allocations = <<>>
  /\ availablePeriods = <<Str("Q1")>>
  /\ hierarchyTree = buildHierarchyTree(skuData, session.hierarchyDefinitions)
  /\ lastEdit = <<>>
  /\ csvRows = <<>>
  /\ nEdits = 0
  /\ StoreIdle

SpecSiblings == SiblingsInit /\ [][EditNext]_vars

\* the nodes that share the parent of node n: the roots for a root, the
\* children of its parent otherwise
SiblingsOf(t, n) ==
  IF n \in Range(t.tree) THEN Range(t.tree)
  ELSE {e[2] : e \in {f \in Range(t.edges) : \E g \in Range(t.edges) : g[2] = n /\ g[1] = f[1]}}

RECURSIVE SumOver(_, _, _, _)
SumOver(t, allocs, set, period) ==
  IF set = {} THEN 0
  ELSE LET n == CHOOSE m \in set : TRUE
       IN PeriodPercentage(allocs, t.nodes[n].path, period) + SumOver(t, allocs, set \ {n}, period)

\* the indicator of every rendered cell is raised exactly when the percentages
\* of the node and its siblings add up to more than 100
IndicatorExact ==
  \A n \in Forest(hierarchyTree), p \in Range(availablePeriods) :
    isOverLimit(hierarchyTree, allocations, n, p)
      = (SumOver(hierarchyTree, allocations, SiblingsOf(hierarchyTree, n), p) > 100)

\* the entry just made is in the allocation set with the percentage entered,
\* and the body saveAllocations sends passes allocationSchema row by row
EntryAccepted ==
  Edited =>
    /\ \E i \in 1..Len(allocations) :
         /\ allocations[i].hierarchyPath = lastEdit.path
         /\ allocations[i].period = lastEdit.period
         /\ allocations[i].percentage = lastEdit.percentage
    /\ \A i \in 1..Len(allocations) : allocationSchemaOk(allocationsToSave(allocations)[i])

NoSeparatorInCodesAndRoots ==
  \A i \in 1..Len(skuData) :
    ~HasSeparator(skuData[i].skuCode) /\ ~HasSeparator(skuData[i].hierarchyValues["category"])

Million == 1000000

RECURSIVE ProductOf(_, _)
\* the product of the fractions f[l] / 100, l in set, in millionths
ProductOf(f, set) ==
  IF set = {} THEN Million
  ELSE LET l == CHOOSE m \in set : TRUE IN (f[l] * ProductOf(f, set \ {l})) \div 100

\* periodAllocations.find(a => a.hierarchyPath === levelPath)?.percentage, 0 when
\* there is none; the rows of a path and a named period are at most one
LevelPercentage(rows, levelPath, period) ==
  LET hits == {r \in BagToSet(rows) : r.hierarchyPath = levelPath /\ r.period = period}
  IN IF hits = {} THEN 0 ELSE (CHOOSE r \in hits : TRUE).percentage

\* the levels of the path whose allocation enters the product: those with a
\* positive percentage; a level without one is passed over
CountedLevels(rows, skuPath, period) ==
  LET parts == Split(skuPath)
  IN {l \in 1..Len(parts) : LevelPercentage(rows, Join(SubSeq(parts, 1, l)), period) > 0}

\* cumulativePercentage after the loop, in millionths: the percentages tried
\* (50, 100) are exact as doubles as fractions, and so are their products
CumulativePercentage(rows, skuPath, period) ==
  LET parts == Split(skuPath)
      counted == CountedLevels(rows, skuPath, period)
      pct == [l \in 1..Len(parts) |-> LevelPercentage(rows, Join(SubSeq(parts, 1, l)), period)]
  IN [millionths |-> IF counted = {} THEN 0 ELSE ProductOf(pct, counted),
      hasAllocation |-> counted # {}]

\* (cumulativePercentage * 100).toFixed(4), or '' when nothing was multiplied
PercentageCell(rows, skuPath, period) ==
  LET c == CumulativePercentage(rows, skuPath, period)
  IN IF c.millionths > 0 /\ c.hasAllocation THEN <<c.millionths>> ELSE NULL

\* Math.floor(totalBudget * cumulativePercentage), 0 for a blank cell
CalculatedAmount(sess, rows, skuPath, period) ==
  LET c == CumulativePercentage(rows, skuPath, period)
  IN IF c.millionths > 0 /\ c.hasAllocation
     THEN (ParseInt(sess.totalBudget) * c.millionths) \div Million ELSE 0

\* [...availablePeriods].sort(null first, then localeCompare)
SortedPeriods(periods) == SelectSeq(PeriodOrder, LAMBDA p : p \in Range(periods))

RECURSIVE SumSeq(_)
SumSeq(s) == IF s = <<>> THEN 0 ELSE Head(s) + SumSeq(Tail(s))

\* the row of one SKU
ExportRow(sess, sku, rows, periods) ==
  LET skuPath == SkuPath(sku, sess.hierarchyDefinitions)
      amounts == [j \in 1..Len(periods) |-> CalculatedAmount(sess, rows, skuPath, periods[j])]
      quantities == [j \in 1..Len(periods) |->
                       IF sku.unitPrice > 0 THEN amounts[j] \div sku.unitPrice ELSE 0]
  IN [hierarchyValues |-> [i \in 1..Len(sess.hierarchyDefinitions) |->
                             sku.hierarchyValues[sess.hierarchyDefinitions[i]]],
      skuCode |-> sku.skuCode,
      skuPath |-> skuPath,
      periodPercentages |-> [j \in 1..Len(periods) |-> PercentageCell(rows, skuPath, periods[j])],
      unitPrice |-> sku.unitPrice,
      totalAmount |-> SumSeq(amounts),
      totalQuantity |-> SumSeq(quantities)]

\* exportToCSV: nothing without SKUs or when the allocations cannot be fetched
ExportToCSV ==
  /\ skuData # <<>>
  /\ \E ok \in BOOLEAN :
       IF ok
       THEN csvRows' = [k \in 1..Len(skuData) |->
                          ExportRow(session, skuData[k], dbAllocations, SortedPeriods(availablePeriods))]
       ELSE UNCHANGED csvRows
  /\ UNCHANGED <<session, skuData, allocations, availablePeriods, hierarchyTree, lastEdit, nEdits>>
  /\ UNCHANGED storeVars

\* the (path, period) pairs a stored row may have in the export check
ExportKeys ==
  {<<path, p>> : path \in {<<"A">>, <<"A", SEP, "R">>, <<"A", SEP, "R", SEP, "S">>},
                 p \in {Str("Q1"), Str("Q2")}}
    \cup {<<<<"A", SEP, "T">>, Str("Q1")>>}

\* -1: no row
ExportPercentages == {-1, 0, 50, 100}

ExportInit ==
  /\ session = [totalBudget |-> NumToString(100), hierarchyDefinitions |-> Columns]
  /\ skuData = <<Sku(<<"S">>, 1000, <<"A">>, <<"R">>), Sku(<<"T">>, 20, <<"A">>, <<>>)>>
  /\ allocations = <<>>
  /\ availablePeriods = <<Str("Q1"), Str("Q2")>>
  /\ hierarchyTree = buildHierarchyTree(skuData, session.hierarchyDefinitions)
  /\ lastEdit = <<>>
  /\ csvRows = <<>>
  /\ nEdits = 0
  /\ \E f \in [ExportKeys -> ExportPercentages] :
       dbAllocations =
         SetToBag({Row(k[1], SegmentCount(k[1]), f[k], 0, 0, k[2]) : k \in {x \in ExportKeys : f[x] >= 0}})
  /\ dbHierarchy = hierarchyDefinitionRows(Columns)
  /\ dbSkuData = skuData
  /\ requests = [c \in Clients |-> NoRequest]
  /\ nRequests = 0
  /\ finished = <<>>
  /\ generation = "legacy"
  /\ dbPeriodBudgets = {}
  /\ dbSession = SessionCreated

ExportNext == ExportToCSV

SpecExport == ExportInit /\ [][ExportNext]_vars

Exported == csvRows # <<>>

\* the percentage of the row stored for a level of the path, -1 when there is none
StoredAt(skuPath, l, period) ==
  LET levelPath == Join(SubSeq(Split(skuPath), 1, l))
      hits == {r \in BagToSet(dbAllocations) : r.hierarchyPath = levelPath /\ r.period = period}
  IN IF hits = {} THEN -1 ELSE (CHOOSE r \in hits : TRUE).percentage

\* C24, as stated: the cell of a SKU and a period is the product of the
\* percentages (as fractions) of the allocations at every level of the SKU's
\* path, and blank whenever a level has no allocation for the period or 0%.
C24_AsClaimed ==
  Exported =>
    \A k \in 1..Len(csvRows), j \in 1..Len(SortedPeriods(availablePeriods)) :
      LET path == csvRows[k].skuPath
          n == SegmentCount(path)
          period == SortedPeriods(availablePeriods)[j]
          pct == [l \in 1..n |-> StoredAt(path, l, period)]
      IN csvRows[k].periodPercentages[j] =
           IF \E l \in 1..n : pct[l] <= 0 THEN NULL
           ELSE <<ProductOf(pct, 1..n)>>

\* what the export does: the cell is the product over the levels that have a
\* positive percentage, and blank only when no level has one
C24_ProductOfPresentLevels ==
  Exported =>
    \A k \in 1..Len(csvRows), j \in 1..Len(SortedPeriods(availablePeriods)) :
      LET path == csvRows[k].skuPath
          n == SegmentCount(path)
          period == SortedPeriods(availablePeriods)[j]
          pct == [l \in 1..n |-> StoredAt(path, l, period)]
          present == {l \in 1..n : pct[l] > 0}
      IN csvRows[k].periodPercentages[j] =
           IF present = {} THEN NULL
           ELSE <<ProductOf(pct, present)>>

(***************************************************************************)
(* C26: the hierarchy definitions after imports.                           *)
(***************************************************************************)
LevelsContiguous(rows) == \A i \in 1..Len(rows) : rows[i].level = i

ColumnNamesDistinct(rows) ==
  \A i, j \in 1..Len(rows) : i # j => rows[i].columnName # rows[j].columnName

\* C26, as stated: after an import the endpoint accepted, the hierarchy
\* definitions of the session have the levels 1..N, without a gap, and
\* pairwise distinct column names.
C26_AsClaimed ==
  (Alone("import") /\ Last.status = 200) =>
    (LevelsContiguous(dbHierarchy) /\ ColumnNamesDistinct(dbHierarchy))

\* what the import gives: the levels 1..N in the order of the columns sent,
\* each definition named after its column
C26_LevelsOfColumnsSent ==
  (Alone("import") /\ Last.status = 200) =>
    /\ LevelsContiguous(dbHierarchy)
    /\ Len(dbHierarchy) = Len(Last.body.hierarchyColumns)
    /\ \A i \in 1..Len(dbHierarchy) : dbHierarchy[i].columnName = Last.body.hierarchyColumns[i]

(***************************************************************************)
(* C27: the level of a node and the segments of its path.                  *)
(***************************************************************************)
\* C27, as stated: every node of the forest the Tree Builder returns has a
\* level equal to the number of '/'-segments of its path, also for a SKU
\* that omits an intermediate hierarchy value.
C27_AsClaimed ==
  Built =>
    \A i \in Forest(hierarchyTree) :
      hierarchyTree.nodes[i].level = SegmentCount(hierarchyTree.nodes[i].path)

\* a SKU that has a value without '/' for every hierarchy column, and a code without '/'
FullyValued(sku) ==
  /\ ~HasSeparator(sku.skuCode)
  /\ \A i \in 1..Len(session.hierarchyDefinitions) :
       LET value == sku.hierarchyValues[session.hierarchyDefinitions[i]]
       IN value # <<>> /\ ~HasSeparator(value)

\* the same for lists of SKUs that all have a value for every column, codes
\* and values without '/'
C27_LevelOfFullyValued ==
  (Built /\ \A k \in 1..Len(skuData) : FullyValued(skuData[k])) =>
    \A i \in Forest(hierarchyTree) :
      hierarchyTree.nodes[i].level = SegmentCount(hierarchyTree.nodes[i].path)

(***************************************************************************)
(* C28: a create of the period budget generation that fails.               *)
(***************************************************************************)
\* C28, as stated: when a create of the period budget generation, which no
\* other request overlapped, is not answered with success, the store holds no
\* budget row for the new key that it did not hold before.
C28_AsClaimed ==
  (Alone("create") /\ generation = "budget" /\ Last.status # 200) =>
    \A b \in dbPeriodBudgets : b.period = Trim(Last.body.period) => b \in Last.pre.budgets

\* the budget row is written before the allocation rows and outside any
\* transaction: a create answered 500 after the copy of the source rows hit the
\* unique index has left its budget row
C28_BudgetRowLeft ==
  /\ Alone("create") /\ generation = "budget" /\ Last.status = 500
  /\ Last.body.copyGiven /\ Last.body.copyFrom = Trim(Last.body.period)
  /\ ~UniqueIndexHolds(dbAllocations (+) CopiedRows(dbAllocations, Last.body.copyFrom, Trim(Last.body.period)))
  /\ \E b \in dbPeriodBudgets : b.period = Trim(Last.body.period) /\ b \notin Last.pre.budgets
  /\ dbAllocations = Last.pre.allocations

\* a create that is refused before its first write leaves the budget rows as they were
C28_RefusedLeavesBudgets ==
  (Alone("create") /\ generation = "budget" /\ Last.status \in {400, 404, 409}) =>
    dbPeriodBudgets = Last.pre.budgets

(***************************************************************************)
(* C29: the key a rename or a delete is addressed to.                      *)
(***************************************************************************)
RenameOrDelete == Quiet /\ ~Last.overlapped /\ Last.kind \in {"rename", "delete"}

\* the key as sent in the URL
AddressedKey == IF Last.kind = "rename" THEN Last.body.old ELSE Last.body.period

\* the key the rows are moved to, the addressed key itself for a delete
TargetKey == IF Last.kind = "rename" THEN Trim(Last.body.newPeriod) ELSE AddressedKey

\* the last request changed rows of the addressed key K only: the rows of the
\* other periods are as before, and no row is left under K
OnlyKeyAffected ==
  /\ \A r \in BagToSet(Last.pre.allocations) \cup BagToSet(dbAllocations) :
       r.period \notin {AddressedKey, TargetKey}
         => CopiesIn(r, dbAllocations) = CopiesIn(r, Last.pre.allocations)
  /\ (Last.kind = "delete" \/ TargetKey # AddressedKey) => CountOf(dbAllocations, AddressedKey) = 0

\* C29, as stated: a successful rename or delete addressed to the key K
\* changes only rows whose period is K; addressed to a period named "null",
\* it renames or removes the rows of that period and leaves the rows of the
\* default period, the one of the null key, as they were.
C29_AsClaimed == (RenameOrDelete /\ Last.status = 200) => OnlyKeyAffected

\* the same for the keys other than "null"
C29_OtherKeys ==
  (RenameOrDelete /\ Last.status = 200 /\ AddressedKey # Str("null")) => OnlyKeyAffected

\* a period named "null" was created beside the default period; a delete
\* addressed to "null" has removed the rows of the default period and left
\* every row of the period named "null"
C29_DefaultPeriodHit ==
  /\ RenameOrDelete /\ Last.kind = "delete" /\ Last.status = 200
  /\ AddressedKey = Str("null")
  /\ Len(finished) = 2 /\ finished[1].kind = "create" /\ finished[1].status = 200
  /\ Trim(finished[1].body.period) = Str("null")
  /\ CountOf(Last.pre.allocations, Str("null")) > 0
  /\ CountOf(dbAllocations, Str("null")) = CountOf(Last.pre.allocations, Str("null"))
  /\ CountOf(Last.pre.allocations, NULL) > 0
  /\ CountOf(dbAllocations, NULL) = 0

(***************************************************************************)
(* C30: what auto-allocation rewrites.                                     *)
(***************************************************************************)
AutoAllocated == finished # <<>> /\ Last.kind = "auto-allocate" /\ Last.status = 200

\* the rows of other levels are as before, and every complete path of the
\* level has exactly one row of the default period, with the equal share
OtherLevelsKeptAndShares ==
  LET L == Last.body.level
      before == Last.pre.allocations
      paths == AutoAllocatePaths(dbSkuData, dbHierarchy, L)
  IN /\ \A r \in BagToSet(before) \cup BagToSet(dbAllocations) :
          r.level # L => CopiesIn(r, dbAllocations) = CopiesIn(r, before)
     /\ \A path \in paths :
          LET rows == {r \in BagToSet(dbAllocations) : r.hierarchyPath = path /\ r.period = NULL}
          IN /\ Cardinality(rows) = 1
             /\ \A r \in rows :
                  /\ CopiesIn(r, dbAllocations) = 1
                  /\ r.level = L
                  /\ r.percentage * Cardinality(paths) = 100

\* C30, as stated: a successful auto-allocation at level L leaves every row of
\* another level and every row of a named period as it was, and afterwards
\* every complete path of level L has exactly one row of the default period,
\* with the share 100 / (number of paths of level L).
C30_AsClaimed ==
  AutoAllocated =>
    /\ OtherLevelsKeptAndShares
    /\ \A r \in BagToSet(Last.pre.allocations) \cup BagToSet(dbAllocations) :
         r.period # NULL => CopiesIn(r, dbAllocations) = CopiesIn(r, Last.pre.allocations)

\* what auto-allocation does: the rows of level L of every period are removed,
\* those of the named periods included, and the only rows of level L left are
\* the new ones of the default period
C30_LevelRewrittenInAllPeriods ==
  AutoAllocated =>
    /\ OtherLevelsKeptAndShares
    /\ \A r \in BagToSet(dbAllocations) : r.level = Last.body.level => r.period = NULL

====
